---- MODULE Spec2Model ----
(***************************************************************************)
(* Model of the helicone-cli export / aggregation pipeline:                *)
(*   - the two query-contract backends (HeliconeClient with its retry      *)
(*     loop, GatewayHeliconeClient without one),                           *)
(*   - the paginated "requests export" and "sessions export" actions,      *)
(*   - the "metrics summary" action (count + sample fetch) and the request *)
(*     sequences of the list, "metrics cost" and "metrics errors" actions. *)
(* One step of the model is one run-to-completion segment of the           *)
(* JavaScript code: from one `await` to the next.                          *)
(***************************************************************************)
EXTENDS Integers, Sequences, FiniteSets, TLC

\* ------------------------------------------------------------------------
\* Program constants
\* ------------------------------------------------------------------------
MaxLimit == 1000
DefaultBatchSize == 1000
SessionBatchSize == 50
maxRetries == 3

\* ------------------------------------------------------------------------
\* Bounds of the model
\* ------------------------------------------------------------------------
MaxTotal == 3
MaxCap == 2
MaxBatch == 2
NumSigned == 1
\* most keys given at once in a conditions object
MaxConds == 3
MaxText == 3

\* ------------------------------------------------------------------------
\* Input domains
\* ------------------------------------------------------------------------
NoOpt == -1

Commands == {"requestsExport", "sessionsExport", "metricsSummary",
             "requestsList", "sessionsList", "metricsCost", "metricsErrors"}
Modes == {"raw", "gateway"}
Formats == {"jsonl", "json", "csv"}
ListFormats == {"table", "json"}
Groupings == {"model", "user"}

\* record counts the source may hold: small ones, one that needs a second
\* page of sessions, one that exceeds the hard query limit
SmallTotals == 0..MaxTotal
BigTotals == {SessionBatchSize + 1, MaxLimit + 2}

\* values of --limit (NoOpt: flag absent)
CapOpts == {NoOpt} \cup (0..MaxCap)

\* values of --batch-size (commander supplies "1000" when the flag is absent)
SmallBatchOpts == 0..MaxBatch
BigBatchOpts == {DefaultBatchSize, MaxLimit + 1}

Min(a, b) == IF a < b THEN a ELSE b

\* ------------------------------------------------------------------------
\* FilterNode: "all" | { [table]: { [field]: { [op]: value } } }
\*           | { left, operator, right }
\* plus the values a parsed --filter can also be: null and the empty object
\* ------------------------------------------------------------------------
Null == [t |-> "null"]
AllMarker == [t |-> "all"]
EmptyObject == [t |-> "empty"]

\* { request_response_rmt: { <field>: { <op>: <val> } } }; key is the property
\* name of a `properties` leaf and "" elsewhere
Leaf(field, key, op, val) ==
  [t |-> "leaf", field |-> field, key |-> key, op |-> op, val |-> val]

Branch(l, o, r) == [t |-> "branch", left |-> l, operator |-> o, right |-> r]

\* faulty variant: the derived filter is dropped when a raw filter is given
combineFilters_RawWins(filter1, filter2) ==
  IF filter1 = Null \/ filter1 = AllMarker \/ filter1 = EmptyObject
    THEN filter2
    ELSE filter1

combineFilters(filter1, filter2) ==
  IF filter1 = Null \/ filter1 = AllMarker \/ filter1 = EmptyObject
    THEN filter2
  ELSE IF filter2 = AllMarker \/ filter2 = EmptyObject
    THEN filter1
  ELSE Branch(filter1, "and", filter2)

\* the conditions object of buildFilter: an absent key reads as undefined;
\* numbers, booleans and dates are carried as strings
Undefined == "undefined"

\* JavaScript truthiness of an optional string
Truthy(v) == v # Undefined /\ v # ""

\* `if (cond) filters.push(leaf)` as the sequence it contributes
PushIf(cond, node) == IF cond THEN <<node>> ELSE <<>>

\* for (const [key, value] of Object.entries(conditions.properties))
PropertyLeaves(props) ==
  [i \in 1..Len(props) |-> Leaf("properties", props[i][1], "equals", props[i][2])]

\* the `search` node: request body or response body contains the text
SearchNode(text) ==
  Branch(Leaf("request_body", "", "contains", text), "or",
         Leaf("response_body", "", "contains", text))

\* the `filters` array of buildFilter once every condition has been looked at
FilterList(c) ==
     PushIf(Truthy(c.model), Leaf("model", "", "equals", c.model))
  \o PushIf(Truthy(c.modelContains), Leaf("model", "", "ilike", c.modelContains))
  \o PushIf(c.status # Undefined, Leaf("status", "", "equals", c.status))
  \o PushIf(Truthy(c.userId), Leaf("user_id", "", "equals", c.userId))
  \o PushIf(Truthy(c.provider), Leaf("provider", "", "equals", c.provider))
  \o PushIf(c.startDate # Undefined,
            Leaf("request_created_at", "", "gte", c.startDate))
  \o PushIf(c.endDate # Undefined,
            Leaf("request_created_at", "", "lte", c.endDate))
  \o PushIf(c.minCost # Undefined, Leaf("cost", "", "gte", c.minCost))
  \o PushIf(c.maxCost # Undefined, Leaf("cost", "", "lte", c.maxCost))
  \o PushIf(c.minLatency # Undefined, Leaf("latency", "", "gte", c.minLatency))
  \o PushIf(c.maxLatency # Undefined, Leaf("latency", "", "lte", c.maxLatency))
  \o PropertyLeaves(c.properties)
  \o PushIf(c.cached # Undefined, Leaf("cache_enabled", "", "equals", c.cached))
  \o PushIf(Truthy(c.search), SearchNode(c.search))
  \o PushIf(Truthy(c.requestBodyContains),
            Leaf("request_body", "", "contains", c.requestBodyContains))
  \o PushIf(Truthy(c.responseBodyContains),
            Leaf("response_body", "", "contains", c.responseBodyContains))

\* faulty variant: the chain is built from the right
RECURSIVE AndTree_RightNested(_, _)
AndTree_RightNested(filters, n) ==
  IF Len(filters) = 1 THEN filters[1]
  ELSE Branch(filters[1], "and", AndTree_RightNested(Tail(filters), n - 1))

\* let result = filters[0]; for (i = 1..) result = {left: result, "and", filters[i]}
RECURSIVE AndTree(_, _)
AndTree(filters, n) ==
  IF n = 1 THEN filters[1]
  ELSE Branch(AndTree(filters, n - 1), "and", filters[n])

\* faulty variant: a single node is wrapped like any other list
buildFilter_AlwaysWraps(conditions) ==
  LET filters == FilterList(conditions)
  IN  IF Len(filters) = 0 THEN AllMarker
      ELSE Branch(AllMarker, "and", AndTree(filters, Len(filters)))

buildFilter(conditions) ==
  LET filters == FilterList(conditions)
  IN  IF Len(filters) = 0 THEN AllMarker
      ELSE IF Len(filters) = 1 THEN filters[1]
      ELSE AndTree(filters, Len(filters))

\* condition objects: what each key may hold
PropertyMaps == {<<>>, <<<<"env", "prod">>>>,
                 <<<<"env", "prod">>, <<"app", "cli">>>>,
                 <<<<"app", "cli">>, <<"env", "prod">>>>}

Conditions ==
  [model: {Undefined, "", "gpt-4"}, modelContains: {Undefined, "gpt"},
   status: {Undefined, "0"}, userId: {Undefined, "u1"},
   provider: {Undefined, "openai"},
   startDate: {Undefined, "2024-01-01"}, endDate: {Undefined, "2024-02-01"},
   minCost: {Undefined, "0"}, maxCost: {Undefined, "1"},
   minLatency: {Undefined, "0"}, maxLatency: {Undefined, "900"},
   properties: PropertyMaps, cached: {Undefined, "false"},
   search: {Undefined, "", "timeout"},
   requestBodyContains: {Undefined, "hello"},
   responseBodyContains: {Undefined, "sorry"}]

ScalarKeys == {"model", "modelContains", "status", "userId", "provider",
               "startDate", "endDate", "minCost", "maxCost", "minLatency",
               "maxLatency", "cached", "search", "requestBodyContains",
               "responseBodyContains"}

\* keys of the conditions object that are given (not undefined)
PresentKeys(c) ==
  {k \in ScalarKeys : c[k] # Undefined}
    \cup (IF c.properties # <<>> THEN {"properties"} ELSE {})

NoConds ==
  [model |-> Undefined, modelContains |-> Undefined, status |-> Undefined,
   userId |-> Undefined, provider |-> Undefined, startDate |-> Undefined,
   endDate |-> Undefined, minCost |-> Undefined, maxCost |-> Undefined,
   minLatency |-> Undefined, maxLatency |-> Undefined, properties |-> <<>>,
   cached |-> Undefined, search |-> Undefined,
   requestBodyContains |-> Undefined, responseBodyContains |-> Undefined]

\* --model gpt-4
ModelConds == [NoConds EXCEPT !.model = "gpt-4"]

\* the metrics commands always pass a start and an end date
DateConds == [NoConds EXCEPT !.startDate = "2024-01-01", !.endDate = "2024-02-01"]

\* values of --filter: absent, the no-filter values, a leaf, a tree
RawLeaf == Leaf("status", "", "equals", "500")
RawBranch == Branch(RawLeaf, "or", Leaf("status", "", "equals", "429"))
RawFilters == {Null, AllMarker, EmptyObject, RawLeaf, RawBranch}

\* values of type FilterNode
FilterNodes == {AllMarker, EmptyObject, Leaf("model", "", "equals", "gpt-4"),
                Branch(Leaf("model", "", "equals", "gpt-4"), "and",
                       Leaf("user_id", "", "equals", "u1"))}

\* ------------------------------------------------------------------------
\* State
\* ------------------------------------------------------------------------
VARIABLES
  cmd,             \* the command being run
  mode,            \* getMode(): which backend createHeliconeClient builds
  format,          \* options.format
  optLimit,        \* options.limit (NoOpt when absent)
  optBatchSize,    \* options.batchSize
  includeBody,     \* options.includeBody / options.includeRequests
  grouping,        \* options.by of metrics cost
  optFilter,       \* options.filter: how the text of --filter reads
  optFilterFile,   \* options.filterFile: how the file at the path reads
  rawFilter,       \* what the raw filter text in use parses to, Null when
                   \* none is read
  conds,           \* the conditions object handed to buildFilter
  optSince,        \* the text of --since (NoText when the flag is absent)
  now,             \* the clock's instant, read by `new Date()`
  engineDate,      \* what `new Date(text)` makes of a text of digits only
  startDate,       \* result of parseDate in the command
  rangeStart,      \* result of parseTimeRange applied on its own
  optApiKey,       \* options.apiKey
  envApiKey,       \* process.env.HELICONE_API_KEY
  optRegion,       \* options.region
  envRegion,       \* process.env.HELICONE_REGION
  promptKey,       \* what the user types at the API key prompt
  config,          \* contents of ~/.helicone/config.yaml
  authContext,     \* result of getAuthContext
  convenienceFilter, \* buildFilter's result in requests list / export
  filter,          \* the filter the command queries with
  srcTotal,        \* number of records the remote source holds
  srvCount,        \* what the remote count endpoint answers
  pc,              \* position of the command's flow of control
  calls,           \* the client calls of the command, by name
  totalCount,
  recordsToExport,
  offset,
  exported,
  isFirst,
  page,            \* records of the batch being processed (requests / sessions)
  idx,             \* index in page of the record being enriched
  stream,          \* "unopened" | "open" | "closed"
  out,             \* what has been written to the stream, in order
  queries,         \* batch queries issued so far
  exitCode,        \* -1 while running, then the process exit code
  report,          \* last user-visible outcome message
  summary          \* what metrics summary computed from its sample

vars == <<cmd, mode, format, optLimit, optBatchSize, includeBody, grouping,
          optFilter, optFilterFile, rawFilter, conds, optSince, now,
          engineDate, startDate, rangeStart, optApiKey, envApiKey, optRegion,
          envRegion, promptKey, config, authContext, convenienceFilter, filter,
          srcTotal,
          srvCount, pc, calls, totalCount, recordsToExport, offset, exported,
          isFirst, page, idx, stream, out, queries, exitCode, report,
          summary>>

\* where the credentials come from and where they are stored; written only
\* by the auth commands
credentials == <<optApiKey, envApiKey, optRegion, envRegion, promptKey, config,
                 authContext>>

\* what the command line, the clock and the remote source fix for the whole
\* run (rangeStart is written only where parseTimeRange is applied on its own)
options == <<cmd, mode, format, optLimit, optBatchSize, includeBody, grouping,
             optFilter, optFilterFile, rawFilter, conds, optSince, now,
             engineDate, rangeStart, credentials, srcTotal, srvCount>>

\* what the steps after the first await of a command leave alone: the
\* options, the date and the filters computed from them, the metrics not yet
\* computed
inputs == <<options, startDate, convenienceFilter, filter, summary>>

job == <<totalCount, recordsToExport, offset, exported, isFirst, page, idx,
         stream, out, queries>>

\* ------------------------------------------------------------------------
\* ApiResult<T> = { data: T | null, error: string | null }
\* kind "data": error null; kind "error": data null
\* ------------------------------------------------------------------------
\* kind "body": the { request?, response? } object of fetchSignedBody
NoResult == [kind |-> "none", n |-> 0, recs |-> <<>>, err |-> "none", body |-> "none"]
DataCount(n) == [kind |-> "data", n |-> n, recs |-> <<>>, err |-> "none", body |-> "none"]
DataRecs(recs) == [kind |-> "data", n |-> 0, recs |-> recs, err |-> "none", body |-> "none"]
ErrorResult(e) == [kind |-> "error", n |-> 0, recs |-> <<>>, err |-> e, body |-> "none"]
BodyResult(b) == [kind |-> "body", n |-> 0, recs |-> <<>>, err |-> "none", body |-> b]

CallNames == {"count", "query", "enrich"}

IdleCall == [api |-> "none", st |-> "idle", attempt |-> 0, filter |-> Null,
             offset |-> 0, limit |-> 0, res |-> NoResult]

NoCalls == [c \in CallNames |-> IdleCall]

\* calls whose HTTP request is on the wire
InFlight == {c \in CallNames : calls[c].st = "inflight"}

\* ------------------------------------------------------------------------
\* The remote service: holds records 1..srcTotal in its order and answers a
\* query with the records at positions [offset, offset+limit)
\* ------------------------------------------------------------------------
\* strings are sequences of characters
Quote == "\""
Newline == "\n"

\* the text of the `model` field of the i-th request (`name` of a session):
\* one with a comma, one with a line break, one with a double quote, and
\* plain ones
ModelOf(i) ==
  CASE i = 1 -> <<"a", ",", "b">>
    [] i = 2 -> <<"a", Newline, "b">>
    [] i = 3 -> <<Quote, "a", Quote>>
    [] OTHER -> <<"a", "b">>

\* the second request failed on the server, the seventh was not found, the
\* third was redirected
StatusOf(i) ==
  CASE i = 2 -> 500
    [] i = 7 -> 404
    [] i = 3 -> 302
    [] OTHER -> 200

\* cost in cents
Rec(i) ==
  [id |-> i, body |-> "none", model |-> ModelOf(i),
   cost |-> 10, total_tokens |-> 100 + i, delay_ms |-> 100 * i,
   response_status |-> StatusOf(i)]

\* { request_response_rmt: { properties: { "Helicone-Session-Id": { equals } } } }
SessionFilter == Leaf("properties", "Helicone-Session-Id", "equals", "session_id")

ServerPage(off, lim) ==
  LET last == Min(off + lim, srcTotal)
  IN  IF last > off THEN [k \in 1..(last - off) |-> Rec(off + k)] ELSE <<>>

ServerAnswer(call) ==
  CASE call.api \in {"countRequests", "getSessionsCount"} -> DataCount(srvCount)
    [] call.api \in {"queryRequests", "querySessions"}
         /\ call.filter # SessionFilter ->
         DataRecs(ServerPage(call.offset, call.limit))
    [] OTHER -> DataRecs(<<>>)

\* what one HTTP exchange can come to
Throwing == {"networkFailure", "timeout", "badBody"}
Outcomes == {"ok", "envelopeError", "httpError", "http429"} \cup Throwing

\* payloads a signed body URL can hold
BodyPayloads == {"none", "request", "response", "both"}

\* ------------------------------------------------------------------------
\* HeliconeClient.request: one iteration of the retry loop, given the outcome
\* of its fetch
\* ------------------------------------------------------------------------
Returned(call, res) == [call EXCEPT !.st = "returned", !.res = res]

\* faulty variant: the loop test admits one attempt too many
RawRequestStep_OneMore(call, o) ==
  CASE o = "http429" ->
         IF call.attempt <= maxRetries
           THEN [call EXCEPT !.st = "sleeping"]
           ELSE Returned(call, ErrorResult("api"))
    [] o = "httpError" -> Returned(call, ErrorResult("api"))
    [] o = "ok" -> Returned(call, ServerAnswer(call))
    [] o = "envelopeError" -> Returned(call, ErrorResult("envelope"))
    [] o \in Throwing ->
         IF call.attempt <= maxRetries
           THEN [call EXCEPT !.st = "sleeping"]
           ELSE Returned(call, ErrorResult("exhausted"))

\* faulty variant: an HTTP error is retried like a 429
RawRequestStep_RetriesHttpErrors(call, o) ==
  CASE o \in {"http429", "httpError"} ->
         IF call.attempt < maxRetries
           THEN [call EXCEPT !.st = "sleeping"]
           ELSE Returned(call, ErrorResult("api"))
    [] o = "ok" -> Returned(call, ServerAnswer(call))
    [] o = "envelopeError" -> Returned(call, ErrorResult("envelope"))
    [] o \in Throwing ->
         IF call.attempt < maxRetries
           THEN [call EXCEPT !.st = "sleeping"]
           ELSE Returned(call, ErrorResult("exhausted"))

RawRequestStep(call, o) ==
  CASE o = "http429" ->
         IF call.attempt < maxRetries
           THEN [call EXCEPT !.st = "sleeping"]
           ELSE Returned(call, ErrorResult("api"))
    [] o = "httpError" -> Returned(call, ErrorResult("api"))
    [] o = "ok" -> Returned(call, ServerAnswer(call))
    [] o = "envelopeError" -> Returned(call, ErrorResult("envelope"))
    [] o \in Throwing ->
         IF call.attempt < maxRetries
           THEN [call EXCEPT !.st = "sleeping"]
           ELSE Returned(call, ErrorResult("exhausted"))

\* GatewayHeliconeClient.request: a single fetch, no try/catch
GatewayRequestStep(call, o) ==
  CASE o \in {"httpError", "http429"} -> Returned(call, ErrorResult("api"))
    [] o = "ok" -> Returned(call, ServerAnswer(call))
    [] o = "envelopeError" -> Returned(call, ErrorResult("envelope"))
    [] o \in Throwing -> [call EXCEPT !.st = "thrown"]

\* the {} that fetchSignedBody returns after a failed fetch; err only records
\* how the empty object came about
SwallowedFailure == [BodyResult("none") EXCEPT !.err = "swallowed"]

\* faulty variant: no try/catch around the fetch
SignedBodyStep_Throws(call, o, payload) ==
  IF o = "ok"
    THEN Returned(call, BodyResult(payload))
    ELSE [call EXCEPT !.st = "thrown"]

\* fetchSignedBody (same code in both clients)
SignedBodyStep(call, o, payload) ==
  IF o = "ok"
    THEN Returned(call, BodyResult(payload))
    ELSE Returned(call, SwallowedFailure)

\* ------------------------------------------------------------------------
\* The query contract: what invoking a method leaves behind at its first await
\* ------------------------------------------------------------------------
request(api, f, off, lim) ==
  [api |-> api, st |-> "inflight", attempt |-> 0, filter |-> f,
   offset |-> off, limit |-> lim, res |-> NoResult]

Unsupported(api) ==
  [api |-> api, st |-> "returned", attempt |-> 0, filter |-> AllMarker,
   offset |-> 0, limit |-> 0, res |-> ErrorResult("unsupported")]

queryRequests(f, off, lim) ==
  request("queryRequests", f, off, Min(lim, MaxLimit))

countRequests(f) == request("countRequests", f, 0, 0)

querySessions(off, lim) ==
  IF mode = "gateway" THEN Unsupported("querySessions")
  ELSE request("querySessions", AllMarker, off, lim)

getSessionsCount ==
  IF mode = "gateway" THEN Unsupported("getSessionsCount")
  ELSE request("getSessionsCount", AllMarker, 0, 0)

queryUserMetrics(lim) ==
  IF mode = "gateway" THEN Unsupported("queryUserMetrics")
  ELSE request("queryUserMetrics", AllMarker, 0, lim)

fetchSignedBody == request("fetchSignedBody", Null, 0, 0)

\* ------------------------------------------------------------------------
\* Transport actions
\* ------------------------------------------------------------------------
RawFetchDone(c) ==
  /\ pc # "done" /\ mode = "raw"
  /\ calls[c].st = "inflight" /\ calls[c].api # "fetchSignedBody"
  /\ \E o \in Outcomes : calls' = [calls EXCEPT ![c] = RawRequestStep(calls[c], o)]
  /\ UNCHANGED <<inputs, job, pc, exitCode, report>>

\* the backoff sleep is over: next iteration of the retry loop
RawBackoffDone(c) ==
  /\ pc # "done" /\ calls[c].st = "sleeping"
  /\ calls' = [calls EXCEPT ![c] = [calls[c] EXCEPT !.st = "inflight",
                                                    !.attempt = @ + 1]]
  /\ UNCHANGED <<inputs, job, pc, exitCode, report>>

GatewayFetchDone(c) ==
  /\ pc # "done" /\ mode = "gateway"
  /\ calls[c].st = "inflight" /\ calls[c].api # "fetchSignedBody"
  /\ \E o \in Outcomes : calls' = [calls EXCEPT ![c] = GatewayRequestStep(calls[c], o)]
  /\ UNCHANGED <<inputs, job, pc, exitCode, report>>

SignedBodyFetchDone(c) ==
  /\ pc # "done"
  /\ calls[c].st = "inflight" /\ calls[c].api = "fetchSignedBody"
  /\ \E o \in Outcomes, p \in BodyPayloads :
        calls' = [calls EXCEPT ![c] = SignedBodyStep(calls[c], o, p)]
  /\ UNCHANGED <<inputs, job, pc, exitCode, report>>

\* ------------------------------------------------------------------------
\* Export: option parsing
\* ------------------------------------------------------------------------
\* parseInt(options.batchSize, 10) || 1000 ; sessions export: const batchSize = 50
batchSize ==
  IF cmd = "sessionsExport" THEN SessionBatchSize
  ELSE IF optBatchSize = 0 \/ optBatchSize = NoOpt THEN DefaultBatchSize
  ELSE optBatchSize

\* options.limit ? parseInt(options.limit, 10) : undefined
maxRecords == optLimit

\* maxRecords ? Math.min(totalCount, maxRecords) : totalCount
RecordsToExport(total) ==
  IF maxRecords # NoOpt /\ maxRecords # 0 THEN Min(total, maxRecords) ELSE total

\* countResult.data || 0 ; countResult.data?.count || 0
CountOf(res) == IF res.kind = "data" THEN res.n ELSE 0

\* ------------------------------------------------------------------------
\* Export: the output stream
\* ------------------------------------------------------------------------
Tok(t, id, body) == [t |-> t, id |-> id, body |-> body]
LBracket == Tok("[", 0, "none")
RBracket == Tok("]", 0, "none")
Comma == Tok(",", 0, "none")
Header == Tok("header", 0, "none")

\* header written right after the stream is opened
HeaderOf(fmt) ==
  CASE fmt = "json" -> <<LBracket>>
    [] fmt = "csv" -> <<Header>>
    [] OTHER -> <<>>

Has(str, ch) == \E i \in 1..Len(str) : str[i] = ch

\* str.replace(/"/g, '""')
RECURSIVE DoubleQuotes(_)
DoubleQuotes(str) ==
  IF str = <<>> THEN <<>>
  ELSE (IF Head(str) = Quote THEN <<Quote, Quote>> ELSE <<Head(str)>>)
         \o DoubleQuotes(Tail(str))

\* one cell of a CSV row as the export actions write it
CsvCell(str) ==
  IF Has(str, ",") \/ Has(str, Quote)
    THEN <<Quote>> \o DoubleQuotes(str) \o <<Quote>>
    ELSE str

\* the row of one record: its id and its text field
CsvRow(rec) ==
  [t |-> "row", id |-> rec.id, body |-> "none", text |-> CsvCell(rec.model)]

\* faulty variant: the separator is written after each object instead of before
WriteRecord_CommaAfter(w, rec) ==
  CASE format = "jsonl" -> [w EXCEPT !.out = Append(@, Tok("line", rec.id, rec.body))]
    [] format = "json" ->
         [out |-> w.out \o <<Tok("object", rec.id, rec.body), Comma>>,
          isFirst |-> FALSE]
    [] format = "csv" -> [w EXCEPT !.out = Append(@, CsvRow(rec))]
    [] OTHER -> w

\* body of the write loop for one record; w = [out, isFirst]
WriteRecord(w, rec) ==
  CASE format = "jsonl" -> [w EXCEPT !.out = Append(@, Tok("line", rec.id, rec.body))]
    [] format = "json" ->
         [out |-> (IF w.isFirst THEN w.out ELSE Append(w.out, Comma))
                    \o <<Tok("object", rec.id, rec.body)>>,
          isFirst |-> FALSE]
    [] format = "csv" -> [w EXCEPT !.out = Append(@, CsvRow(rec))]
    [] OTHER -> w

\* `for (const req of requests) { ...write... }` over recs[lo..hi], in order
\* (split in halves to keep the evaluation shallow on a 1000-record page; the
\* test on Len makes TLC evaluate the left half before it enters the right one)
RECURSIVE WriteRange(_, _, _, _)
WriteRange(w, recs, lo, hi) ==
  IF lo > hi THEN w
  ELSE IF lo = hi THEN WriteRecord(w, recs[lo])
  ELSE LET mid == (lo + hi) \div 2
           left == WriteRange(w, recs, lo, mid)
       IN  IF Len(left.out) >= 0 THEN WriteRange(left, recs, mid + 1, hi) ELSE left

WriteRecords(w, recs) == WriteRange(w, recs, 1, Len(recs))

\* footer written before the stream is closed
FooterOf(fmt) == IF fmt = "json" THEN <<RBracket>> ELSE <<>>

\* req.signed_body_url is set
HasSignedBodyUrl(rec) == rec.id <= NumSigned

\* first index >= from of a record the enrichment loop fetches for, else 0
NextToEnrich(recs, from) ==
  LET todo == {i \in from..Len(recs) :
                 cmd = "sessionsExport" \/ HasSignedBodyUrl(recs[i])}
  IN  IF todo = {} THEN 0 ELSE CHOOSE i \in todo : \A j \in todo : i <= j

\* the enrichment call of one record
EnrichCall ==
  IF cmd = "sessionsExport" THEN queryRequests(SessionFilter, 0, 100)
  ELSE fetchSignedBody

\* ------------------------------------------------------------------------
\* Export: control flow (requests export and sessions export)
\* ------------------------------------------------------------------------
IsExport == cmd \in {"requestsExport", "sessionsExport"}
IsSessions == cmd \in {"sessionsExport", "sessionsList"}

CountCall(f) == IF IsSessions THEN getSessionsCount ELSE countRequests(f)

BatchCall(off, lim) ==
  IF cmd = "sessionsExport" THEN querySessions(off, lim)
  ELSE queryRequests(filter, off, lim)

Settled(c) == calls[c].st \in {"returned", "thrown"}

\* process.exit / return from the action; requests still on the wire or
\* waiting for a retry die with the process
Exit(code, msg) ==
  /\ pc' = "done" /\ exitCode' = code /\ report' = msg
  /\ calls' = [c \in CallNames |->
                 IF calls[c].st \in {"inflight", "sleeping"} THEN IdleCall
                 ELSE calls[c]]

\* catch (error) { console.error(...); process.exit(1); }
Catch == Exit(1, "error") /\ UNCHANGED job

\* faulty variant: every batch asks for batchSize records
LoopOrFinish_FullBatches(target, e, off, w) ==
  IF e < target
    THEN /\ calls' = [calls EXCEPT !["query"] = BatchCall(off, batchSize),
                                   !["enrich"] = IdleCall,
                                   !["count"] = IdleCall]
         /\ queries' = Append(queries, [offset |-> off, limit |-> batchSize])
         /\ pc' = "awaitBatch"
         /\ out' = w /\ stream' = "open"
         /\ UNCHANGED <<exitCode, report>>
    ELSE /\ out' = w \o FooterOf(format)
         /\ stream' = "closed"
         /\ Exit(0, "exported")
         /\ UNCHANGED queries

\* top of `while (exported < recordsToExport)` and what follows the loop
LoopOrFinish(target, e, off, w) ==
  IF e < target
    THEN LET limit == Min(batchSize, target - e)
         IN  /\ calls' = [calls EXCEPT !["query"] = BatchCall(off, limit),
                                       !["enrich"] = IdleCall,
                                       !["count"] = IdleCall]
             /\ queries' = Append(queries, [offset |-> off, limit |-> limit])
             /\ pc' = "awaitBatch"
             /\ out' = w /\ stream' = "open"
             /\ UNCHANGED <<exitCode, report>>
    ELSE /\ out' = w \o FooterOf(format)
         /\ stream' = "closed"
         /\ Exit(0, "exported")
         /\ UNCHANGED queries

\* faulty variant: an empty page is treated as a failed batch
Finish_AsError ==
  /\ stream' = "closed"
  /\ Exit(1, "error")
  /\ UNCHANGED <<totalCount, recordsToExport, offset, exported, isFirst, page,
                 idx, out, queries>>

\* `break` on an empty page
Finish ==
  /\ out' = out \o FooterOf(format)
  /\ stream' = "closed"
  /\ Exit(0, "exported")
  /\ UNCHANGED <<totalCount, recordsToExport, offset, exported, isFirst, page,
                 idx, queries>>

\* faulty variant: the offset advances by the number of records returned
EndOfBatch_ByReturned(w, n) ==
  /\ out' = w.out /\ isFirst' = w.isFirst
  /\ exported' = exported + n
  /\ offset' = offset + n
  /\ pc' = "delay"
  /\ calls' = NoCalls
  /\ page' = <<>> /\ idx' = 0
  /\ UNCHANGED <<totalCount, recordsToExport, stream, queries, exitCode, report>>

\* faulty variant: the page is written but not counted
EndOfBatch_NotCounted(w, n) ==
  /\ out' = w.out /\ isFirst' = w.isFirst
  /\ exported' = exported
  /\ offset' = offset + batchSize
  /\ pc' = "delay"
  /\ calls' = NoCalls
  /\ page' = <<>> /\ idx' = 0
  /\ UNCHANGED <<totalCount, recordsToExport, stream, queries, exitCode, report>>

\* end of one loop iteration: counters, progress line, then the 100ms delay
EndOfBatch(w, n) ==
  /\ out' = w.out /\ isFirst' = w.isFirst
  /\ exported' = exported + n
  /\ offset' = offset + batchSize
  /\ pc' = "delay"
  /\ calls' = NoCalls
  /\ page' = <<>> /\ idx' = 0
  /\ UNCHANGED <<totalCount, recordsToExport, stream, queries, exitCode, report>>

\* faulty variant: the output file is created before the count is looked at
NothingMatched_AfterOpen ==
  /\ Exit(0, "nothing")
  /\ stream' = "open" /\ out' = HeaderOf(format)
  /\ UNCHANGED <<totalCount, recordsToExport, offset, exported, isFirst, page,
                 idx, queries>>

\* if (totalCount === 0) { console.log("No ... found"); return; }
NothingMatched == Exit(0, "nothing") /\ UNCHANGED job

\* faulty variant: the error path exits without stream.close()
AbortBatch_NoClose == Exit(1, "error") /\ UNCHANGED job

\* if (result.error) { console.error(...); stream.close(); process.exit(1); }
AbortBatch ==
  /\ stream' = "closed"
  /\ Exit(1, "error")
  /\ UNCHANGED <<totalCount, recordsToExport, offset, exported, isFirst, page,
                 idx, out, queries>>

\* faulty variant: the next page is requested while the bodies are being fetched
StartEnrich_Prefetch ==
  [calls EXCEPT !["query"] = BatchCall(offset + batchSize, batchSize),
                !["enrich"] = EnrichCall]

\* the first `await client.fetchSignedBody(...)` / per-session queryRequests
StartEnrich == [calls EXCEPT !["query"] = IdleCall, !["enrich"] = EnrichCall]

\* ------------------------------------------------------------------------
\* Configuration: getApiKey, getRegion, getAuthContext, the stored config
\* ------------------------------------------------------------------------
Regions == {"us", "eu"}

\* loadConfig() when there is no config file: {}
EmptyConfig ==
  [apiKey |-> Undefined, region |-> Undefined, gatewayUrl |-> Undefined,
   gatewayToken |-> Undefined, mode |-> Undefined]

\* faulty variant: the environment is asked before the flag
getApiKey_EnvFirst(cliApiKey) ==
  IF Truthy(envApiKey) THEN envApiKey
  ELSE IF Truthy(cliApiKey) THEN cliApiKey
  ELSE config.apiKey

getApiKey(cliApiKey) ==
  IF Truthy(cliApiKey) THEN cliApiKey
  ELSE IF Truthy(envApiKey) THEN envApiKey
  ELSE config.apiKey

getRegion(cliRegion) ==
  IF cliRegion \in Regions THEN cliRegion
  ELSE IF envRegion \in Regions THEN envRegion
  ELSE IF config.region \in Regions THEN config.region
  ELSE "us"

NoAuthContext == [kind |-> "none", apiKey |-> Undefined, region |-> Undefined]

getAuthContext(cliApiKey, cliRegion) ==
  LET apiKey == getApiKey(cliApiKey)
  IN  IF ~Truthy(apiKey)
        THEN [kind |-> "error", apiKey |-> Undefined, region |-> Undefined]
        ELSE [kind |-> "auth", apiKey |-> apiKey, region |-> getRegion(cliRegion)]

storeApiKey(apiKey, region) ==
  [config EXCEPT !.apiKey = apiKey,
                 !.region = IF Truthy(region) THEN region ELSE @]

\* faulty variant: the whole config is dropped
clearCredentials_Everything == EmptyConfig

clearCredentials == [config EXCEPT !.apiKey = Undefined]

hasStoredCredentials == Truthy(config.apiKey)

\* ------------------------------------------------------------------------
\* parseTimeRange / parseDate
\* A text is the sequence of its characters. An instant is a whole number of
\* hours since the epoch plus a remainder in milliseconds: every term the code
\* subtracts is a whole multiple of 60 * 60 * 1000 ms.
\* ------------------------------------------------------------------------
NoText == <<>>

DigitChars == <<"0", "1", "2", "3", "4", "5", "6", "7", "8", "9">>
IsDigit(ch) == \E i \in 1..10 : DigitChars[i] = ch
DigitValue(ch) == (CHOOSE i \in 1..10 : DigitChars[i] = ch) - 1
Units == {"h", "d", "w", "m"}

Instant(h, ms) == [valid |-> TRUE, h |-> h, ms |-> ms]
\* a Date whose getTime() is NaN
InvalidDate == [valid |-> FALSE, h |-> 0, ms |-> 0]

\* new Date(t.getTime() - hours * 60 * 60 * 1000)
Before(t, hours) == [t EXCEPT !.h = @ - hours]

\* what a date function comes to: a Date returned or an Error thrown
NoDate == [kind |-> "undefined", at |-> InvalidDate, msg |-> ""]
DateAt(t) == [kind |-> "date", at |-> t, msg |-> ""]
ThrownError(msg) == [kind |-> "error", at |-> InvalidDate, msg |-> msg]

InvalidTimeRange ==
  "Invalid time range format. Use formats like \"24h\", \"7d\", \"4w\", \"1m\""
InvalidDateFormat ==
  "Invalid date format. Use ISO format (YYYY-MM-DD) or relative (7d, 24h)"

\* /^(\d+)([hdwm])$/
MatchesRange(text) ==
  /\ Len(text) >= 2
  /\ text[Len(text)] \in Units
  /\ \A i \in 1..(Len(text) - 1) : IsDigit(text[i])

\* parseInt(digits, 10) of a text of digits
RECURSIVE parseInt(_)
parseInt(digits) ==
  IF digits = <<>> THEN 0
  ELSE parseInt(SubSeq(digits, 1, Len(digits) - 1)) * 10
         + DigitValue(digits[Len(digits)])

\* faulty variant: a month of 31 days
UnitHours_LongMonth(unit) ==
  CASE unit = "h" -> 1
    [] unit = "d" -> 24
    [] unit = "w" -> 7 * 24
    [] unit = "m" -> 31 * 24

\* the factor of `value` in each case of the switch, in hours
UnitHours(unit) ==
  CASE unit = "h" -> 1
    [] unit = "d" -> 24
    [] unit = "w" -> 7 * 24
    [] unit = "m" -> 30 * 24

parseTimeRange(range) ==
  IF ~MatchesRange(range) THEN ThrownError(InvalidTimeRange)
  ELSE LET value == parseInt(SubSeq(range, 1, Len(range) - 1))
           unit == range[Len(range)]
       IN  DateAt(Before(now, value * UnitHours(unit)))

\* texts in the ISO format, each one character sequence taken as a whole,
\* and the instants they name
IsoDay == "2024-01-15"
IsoMinute == "2024-01-15T10:30:00Z"
IsoTexts == {<<IsoDay>>, <<IsoMinute>>}
IsoInstant(text) ==
  IF text = <<IsoDay>> THEN Instant(473688, 0) ELSE Instant(473698, 1800000)

\* new Date(value): the ISO format is parsed as the language defines it, a
\* text of digits only as the engine chooses, any other text here gives an
\* invalid Date
NewDate(value) ==
  IF value \in IsoTexts THEN IsoInstant(value)
  ELSE IF value # <<>> /\ \A i \in 1..Len(value) : IsDigit(value[i])
    THEN engineDate
  ELSE InvalidDate

\* faulty variant: the relative form is never tried
parseDate_IsoOnly(value) ==
  LET date == NewDate(value)
  IN  IF ~date.valid THEN ThrownError(InvalidDateFormat) ELSE DateAt(date)

parseDate(value) ==
  IF MatchesRange(value) THEN parseTimeRange(value)
  ELSE LET date == NewDate(value)
       IN  IF ~date.valid THEN ThrownError(InvalidDateFormat) ELSE DateAt(date)

\* the --since a command runs with when none is given: the option's default
\* in the requests commands, parseDate("7d") / parseDate("30d") in the others
DefaultSince ==
  IF cmd \in {"requestsList", "metricsSummary", "metricsErrors", "sessionsList"}
    THEN <<"7", "d">>
    ELSE <<"3", "0", "d">>

\* const startDate = options.since ? parseDate(options.since) : ...
ParseSince ==
  startDate' = parseDate(IF optSince # NoText THEN optSince ELSE DefaultSince)

\* parseDate throws: catch (error) prints its message and exits 1
DateFails == optSince # NoText /\ parseDate(optSince).kind = "error"

DateRefused ==
  /\ Exit(1, parseDate(optSince).msg)
  /\ UNCHANGED <<job, convenienceFilter, filter, summary>>

\* how a raw filter text can read: no option, the empty string, text that is
\* not JSON, JSON text; a file path can also name a file that cannot be read
JsonText == "json"
Garbage == "garbage"
Unreadable == "unreadable"
FilterTexts == {Undefined, "", Garbage, JsonText}
FilterFiles == {Undefined, "", Unreadable, Garbage, JsonText}

\* if (options.filterFile) { readFileSync, JSON.parse }
\* else if (options.filter) { JSON.parse }
\* the text that is parsed, Undefined when neither branch is taken
RawFilterText_FlagFirst ==
  IF Truthy(optFilter) THEN optFilter
  ELSE IF Truthy(optFilterFile) THEN optFilterFile
  ELSE Undefined

RawFilterText ==
  IF Truthy(optFilterFile) THEN optFilterFile
  ELSE IF Truthy(optFilter) THEN optFilter
  ELSE Undefined

\* readFileSync or JSON.parse throws: the inner catch prints its message and
\* calls process.exit(1)
RawFilterFails == ~IsSessions /\ RawFilterText \in {Unreadable, Garbage}

RawFilterError ==
  IF Truthy(optFilterFile) THEN "Error reading filter file"
  ELSE "Error parsing filter JSON"

\* const convenienceFilter = buildFilter({...});
\* const filter = combineFilters(rawFilter, convenienceFilter);
\* (the sessions commands query with the literal "all")
ParseFilters ==
  IF IsSessions
    THEN filter' = AllMarker /\ UNCHANGED convenienceFilter
    ELSE /\ convenienceFilter' = buildFilter(conds)
         /\ filter' = IF RawFilterFails THEN filter
                      ELSE combineFilters(rawFilter, convenienceFilter')

ExportStart ==
  /\ IsExport /\ pc = "start"
  /\ ParseSince
  /\ IF DateFails THEN DateRefused
     ELSE /\ ParseFilters
          /\ IF RawFilterFails
               THEN Exit(1, RawFilterError) /\ UNCHANGED job
               ELSE /\ calls' = [calls EXCEPT !["count"] = CountCall(filter')]
                    /\ pc' = "awaitCount"
                    /\ UNCHANGED <<job, exitCode, report>>
          /\ UNCHANGED summary
  /\ UNCHANGED options

ExportCounted ==
  /\ IsExport /\ pc = "awaitCount" /\ Settled("count")
  /\ IF calls["count"].st = "thrown" THEN Catch
     ELSE LET total == CountOf(calls["count"].res)
          IN  IF total = 0
                THEN NothingMatched
                ELSE /\ totalCount' = total
                     /\ recordsToExport' = RecordsToExport(total)
                     /\ offset' = 0 /\ exported' = 0 /\ isFirst' = TRUE
                     /\ LoopOrFinish(RecordsToExport(total), 0, 0, HeaderOf(format))
                     /\ UNCHANGED <<page, idx>>
  /\ UNCHANGED inputs

BatchReturned ==
  /\ IsExport /\ pc = "awaitBatch" /\ Settled("query")
  /\ LET call == calls["query"]
         recs == call.res.recs
         first == IF includeBody THEN NextToEnrich(recs, 1) ELSE 0
     IN  CASE call.st = "thrown" -> Catch
           [] call.st # "thrown" /\ call.res.kind = "error" -> AbortBatch
           [] call.st # "thrown" /\ call.res.kind # "error" /\ Len(recs) = 0 ->
                Finish
           [] OTHER ->
                IF first > 0
                  THEN /\ page' = recs /\ idx' = first
                       /\ calls' = StartEnrich
                       /\ pc' = "awaitEnrich"
                       /\ UNCHANGED <<totalCount, recordsToExport, offset,
                                      exported, isFirst, stream, out, queries,
                                      exitCode, report>>
                  ELSE EndOfBatch(WriteRecords([out |-> out, isFirst |-> isFirst],
                                               recs), Len(recs))
  /\ UNCHANGED inputs

\* requests export: if (body.request) req.request_body = body.request; ...
\* sessions export: if (reqResult.data) sessionData.requests = reqResult.data
Enriched(rec, res) ==
  CASE res.kind = "body" -> [rec EXCEPT !.body = res.body]
    [] res.kind = "data" -> [rec EXCEPT !.body = "requests"]
    [] OTHER -> rec

EnrichReturned ==
  /\ IsExport /\ pc = "awaitEnrich" /\ Settled("enrich")
  /\ LET call == calls["enrich"]
         recs == [page EXCEPT ![idx] = Enriched(@, call.res)]
         next == NextToEnrich(recs, idx + 1)
         w == [out |-> out, isFirst |-> isFirst]
     IN  IF call.st = "thrown" THEN Catch
         ELSE IF cmd = "sessionsExport"
           THEN \* the session is written as soon as its requests are in
                LET w1 == WriteRecord(w, recs[idx])
                IN  IF next > 0
                      THEN /\ page' = recs /\ idx' = next
                           /\ out' = w1.out /\ isFirst' = w1.isFirst
                           /\ calls' = [calls EXCEPT !["enrich"] = EnrichCall]
                           /\ UNCHANGED <<totalCount, recordsToExport, offset,
                                          exported, stream, queries, pc,
                                          exitCode, report>>
                      ELSE EndOfBatch(w1, Len(recs))
           ELSE \* requests export: all bodies first, then the write loop
                IF next > 0
                  THEN /\ page' = recs /\ idx' = next
                       /\ calls' = [calls EXCEPT !["enrich"] = EnrichCall]
                       /\ UNCHANGED <<totalCount, recordsToExport, offset,
                                      exported, isFirst, stream, out, queries,
                                      pc, exitCode, report>>
                  ELSE EndOfBatch(WriteRecords(w, recs), Len(recs))
  /\ UNCHANGED inputs

\* await new Promise((resolve) => setTimeout(resolve, 100)), then the loop test
DelayDone ==
  /\ IsExport /\ pc = "delay"
  /\ LoopOrFinish(recordsToExport, exported, offset, out)
  /\ UNCHANGED <<inputs, totalCount, recordsToExport, offset, exported, isFirst,
                 page, idx>>

\* ------------------------------------------------------------------------
\* metrics summary: count and sample fetch
\* ------------------------------------------------------------------------
GatewaySampleLimit == 200
RawSampleLimit == 1000

getSampleLimit(m) == IF m = "gateway" THEN GatewaySampleLimit ELSE RawSampleLimit

\* const [countResult, sampleResult] = await Promise.all([...])
SummaryStart ==
  /\ cmd = "metricsSummary" /\ pc = "start"
  /\ ParseSince
  /\ IF DateFails THEN DateRefused
     ELSE /\ filter' = buildFilter(conds)
          /\ calls' = [calls EXCEPT
                         !["count"] = countRequests(filter'),
                         !["query"] = queryRequests(filter', 0, getSampleLimit(mode))]
          /\ pc' = "awaitAll"
          /\ UNCHANGED <<convenienceFilter, summary, job, exitCode, report>>
  /\ UNCHANGED options

\* a JavaScript number that came out of a division: num / den, with
\* n / 0 = Infinity for n > 0 and 0 / 0 = NaN
Ratio(n, d) == [num |-> n, den |-> d]
Whole(n) == Ratio(n, 1)

\* x * r
Times(x, r) == Ratio(x * r.num, r.den)

RECURSIVE SumSeq(_)
SumSeq(xs) == IF xs = <<>> THEN 0 ELSE Head(xs) + SumSeq(Tail(xs))

NoSummary ==
  [totalRequests |-> 0, sampleSize |-> 0, totalCost |-> 0, totalTokens |-> 0,
   successCount |-> 0, errorCount |-> 0,
   avgLatency |-> Whole(0), errorRate |-> Whole(0), scaleFactor |-> Whole(0),
   estimatedTotalCost |-> Whole(0), estimatedTotalTokens |-> Whole(0)]

\* req.response_status >= 200 && req.response_status < 300
IsSuccessStatus(status) == status >= 200 /\ status < 300

\* faulty variant: a redirect counts as an error
IsErrorStatus_FromRedirect(status) == ~IsSuccessStatus(status) /\ status >= 300

\* else if (req.response_status >= 400)
IsErrorStatus(status) == ~IsSuccessStatus(status) /\ status >= 400

\* the metrics computed from the count and the sample
Summarize(count, requests) ==
  LET totalRequests == IF count > 0 THEN count ELSE Len(requests)
      sampleSize == Len(requests)
      totalTokens == SumSeq([i \in 1..sampleSize |-> requests[i].total_tokens])
      totalCost == SumSeq([i \in 1..sampleSize |-> requests[i].cost])
      totalLatency == SumSeq([i \in 1..sampleSize |-> requests[i].delay_ms])
      successCount == Cardinality({i \in 1..sampleSize :
                                     IsSuccessStatus(requests[i].response_status)})
      errorCount == Cardinality({i \in 1..sampleSize :
                                   IsErrorStatus(requests[i].response_status)})
      scaleFactor == IF totalRequests > sampleSize
                       THEN Ratio(totalRequests, sampleSize)
                       ELSE Whole(1)
  IN  [totalRequests |-> totalRequests, sampleSize |-> sampleSize,
       totalCost |-> totalCost, totalTokens |-> totalTokens,
       successCount |-> successCount, errorCount |-> errorCount,
       avgLatency |-> IF sampleSize > 0
                        THEN Ratio(totalLatency, sampleSize)
                        ELSE Whole(0),
       errorRate |-> IF sampleSize > 0
                       THEN Ratio(errorCount * 100, sampleSize)
                       ELSE Whole(0),
       scaleFactor |-> scaleFactor,
       estimatedTotalCost |-> Times(totalCost, scaleFactor),
       estimatedTotalTokens |-> Times(totalTokens, scaleFactor)]

\* Promise.all settles: rejected by the first call that throws, fulfilled
\* once both have returned
SummaryJoined ==
  /\ cmd = "metricsSummary" /\ pc = "awaitAll"
  /\ LET thrown == \E c \in {"count", "query"} : calls[c].st = "thrown"
         both == \A c \in {"count", "query"} : calls[c].st = "returned"
         failed == \E c \in {"count", "query"} : calls[c].res.kind = "error"
     IN  /\ thrown \/ both
         /\ IF thrown THEN Catch /\ UNCHANGED summary
            ELSE IF failed THEN Exit(1, "error") /\ UNCHANGED <<job, summary>>
            ELSE /\ summary' = Summarize(calls["count"].res.n,
                                         calls["query"].res.recs)
                 /\ Exit(0, "summary") /\ UNCHANGED job
  /\ UNCHANGED <<options, startDate, convenienceFilter, filter>>

\* ------------------------------------------------------------------------
\* requests list / sessions list (not --quiet)
\* ------------------------------------------------------------------------
DefaultListLimit == 25
DefaultUserLimit == 50

IsList == cmd \in {"requestsList", "sessionsList"}

\* parseInt(options.limit, 10), the option defaulting to "25"
ListLimit == IF optLimit = NoOpt THEN DefaultListLimit ELSE optLimit

ListStart ==
  /\ IsList /\ pc = "start"
  /\ ParseSince
  /\ IF DateFails THEN DateRefused
     ELSE /\ ParseFilters
          /\ IF RawFilterFails
               THEN Exit(1, RawFilterError) /\ UNCHANGED job
               ELSE /\ calls' = [calls EXCEPT !["query"] =
                                   IF IsSessions THEN querySessions(0, ListLimit)
                                   ELSE queryRequests(filter', 0, ListLimit)]
                    /\ pc' = "awaitList"
                    /\ UNCHANGED <<job, exitCode, report>>
          /\ UNCHANGED summary
  /\ UNCHANGED options

ListReturned ==
  /\ IsList /\ pc = "awaitList" /\ Settled("query")
  /\ LET call == calls["query"]
         recs == call.res.recs
         wantsCount == format = "table" /\ (IsSessions \/ Len(recs) = ListLimit)
     IN  CASE call.st = "thrown" -> Catch
           [] call.st # "thrown" /\ call.res.kind = "error" ->
                Exit(1, "error") /\ UNCHANGED job
           [] call.st # "thrown" /\ call.res.kind # "error" /\ Len(recs) = 0 ->
                Exit(0, "nothing") /\ UNCHANGED job
           [] OTHER ->
                IF wantsCount
                  THEN /\ calls' = [calls EXCEPT !["count"] = CountCall(filter)]
                       /\ pc' = "awaitListCount"
                       /\ UNCHANGED <<job, exitCode, report>>
                  ELSE Exit(0, "listed") /\ UNCHANGED job
  /\ UNCHANGED inputs

ListCounted ==
  /\ IsList /\ pc = "awaitListCount" /\ Settled("count")
  /\ IF calls["count"].st = "thrown" THEN Catch
     ELSE Exit(0, "listed") /\ UNCHANGED job
  /\ UNCHANGED inputs

\* ------------------------------------------------------------------------
\* metrics cost / metrics errors: the sample fetch
\* ------------------------------------------------------------------------
IsAggregate == cmd \in {"metricsCost", "metricsErrors"}

\* parseInt(options.limit, 10) || 50
UserLimit == IF optLimit = NoOpt \/ optLimit = 0 THEN DefaultUserLimit ELSE optLimit

AggregateStart ==
  /\ IsAggregate /\ pc = "start"
  /\ ParseSince
  /\ IF DateFails THEN DateRefused
     ELSE IF cmd = "metricsErrors"
       THEN \* `limit: sampleLimit` names a binding the errors action does not
            \* declare: ReferenceError before the call is made
            /\ filter' = buildFilter(conds)
            /\ Catch /\ UNCHANGED <<convenienceFilter, summary>>
       ELSE /\ filter' = (IF grouping = "user" THEN filter ELSE buildFilter(conds))
            /\ calls' = [calls EXCEPT !["query"] =
                           IF grouping = "user" THEN queryUserMetrics(UserLimit)
                           ELSE queryRequests(filter', 0, getSampleLimit(mode))]
            /\ pc' = "awaitSample"
            /\ UNCHANGED <<convenienceFilter, summary, job, exitCode, report>>
  /\ UNCHANGED options

AggregateReturned ==
  /\ IsAggregate /\ pc = "awaitSample" /\ Settled("query")
  /\ LET call == calls["query"]
     IN  IF call.st = "thrown" THEN Catch
         ELSE IF call.res.kind = "error" THEN Exit(1, "error") /\ UNCHANGED job
         ELSE Exit(0, "metrics") /\ UNCHANGED job
  /\ UNCHANGED inputs

\* ------------------------------------------------------------------------
\* Specification
\* ------------------------------------------------------------------------
\* what the count endpoint may answer for a source of n records: the truth,
\* one too many, or a spurious zero
CountAnswers(n) == {n, n + 1, 0}

\* the data commands run with a key from the environment and no config file
InitNoCredentials ==
  /\ optApiKey = Undefined /\ envApiKey = "sk-env"
  /\ optRegion = Undefined /\ envRegion = Undefined
  /\ promptKey = "" /\ config = EmptyConfig
  /\ authContext = NoAuthContext

InitJob ==
  /\ pc = "start" /\ calls = NoCalls
  /\ convenienceFilter = Null /\ filter = Null
  /\ totalCount = 0 /\ recordsToExport = 0 /\ offset = 0 /\ exported = 0
  /\ isFirst = TRUE /\ page = <<>> /\ idx = 0
  /\ stream = "unopened" /\ out = <<>> /\ queries = <<>>
  /\ exitCode = -1 /\ report = "none"
  /\ summary = NoSummary
  /\ startDate = NoDate /\ rangeStart = NoDate
  /\ InitNoCredentials

InitRequestsExport ==
  /\ cmd = "requestsExport"
  /\ mode \in Modes /\ format \in Formats /\ includeBody \in BOOLEAN
  /\ grouping = "model"
  /\ \/ /\ srcTotal \in SmallTotals
        /\ srvCount \in CountAnswers(srcTotal)
        /\ optLimit \in CapOpts
        /\ optBatchSize \in SmallBatchOpts
        /\ rawFilter = Null /\ conds = NoConds
     \/ /\ srcTotal = MaxLimit + 2
        /\ srvCount = srcTotal
        /\ optLimit = NoOpt
        /\ optBatchSize \in BigBatchOpts
        /\ includeBody = FALSE
        /\ rawFilter = Null /\ conds = NoConds
     \/ /\ srcTotal \in SmallTotals
        /\ srvCount = srcTotal
        /\ optLimit = NoOpt
        /\ optBatchSize = DefaultBatchSize
        /\ includeBody = FALSE
        /\ rawFilter \in {Null, RawLeaf} /\ conds \in {NoConds, ModelConds}

InitSessionsExport ==
  /\ cmd = "sessionsExport"
  /\ mode \in Modes /\ format \in Formats /\ includeBody \in BOOLEAN
  /\ optBatchSize = NoOpt /\ grouping = "model"
  /\ rawFilter = Null /\ conds = NoConds
  /\ \/ /\ srcTotal \in SmallTotals
        /\ srvCount \in CountAnswers(srcTotal)
        /\ optLimit \in CapOpts
     \/ /\ srcTotal = SessionBatchSize + 1
        /\ srvCount = srcTotal
        /\ optLimit = NoOpt
        /\ includeBody = FALSE

InitSummary ==
  /\ cmd = "metricsSummary"
  /\ mode \in Modes /\ format \in ListFormats /\ includeBody = FALSE
  /\ optBatchSize = NoOpt /\ optLimit = NoOpt /\ grouping = "model"
  /\ rawFilter = Null /\ conds \in {DateConds, [DateConds EXCEPT !.model = "gpt-4"]}
  /\ \/ /\ srcTotal \in SmallTotals
        /\ srvCount \in CountAnswers(srcTotal) \cup 1..srcTotal
     \/ \* a sample of 10 requests out of 100
        /\ srcTotal = 10
        /\ srvCount = 100

InitList ==
  /\ IsList
  /\ mode \in Modes /\ format \in ListFormats /\ includeBody = FALSE
  /\ optBatchSize = NoOpt /\ optLimit \in CapOpts /\ grouping = "model"
  /\ IF IsSessions THEN rawFilter = Null /\ conds = NoConds
     ELSE rawFilter \in {Null, RawLeaf} /\ conds \in {NoConds, ModelConds}
  /\ srcTotal \in SmallTotals
  /\ srvCount \in CountAnswers(srcTotal)

InitAggregate ==
  /\ IsAggregate
  /\ mode \in Modes /\ format \in ListFormats /\ includeBody = FALSE
  /\ optBatchSize = NoOpt /\ optLimit = NoOpt
  /\ grouping \in (IF cmd = "metricsCost" THEN Groupings ELSE {"model"})
  /\ rawFilter = Null /\ conds = DateConds
  /\ srcTotal \in SmallTotals
  /\ srvCount \in CountAnswers(srcTotal)

\* requests list / export over one record, with every way --filter and
\* --filter-file can read
InitRawFilterOptions ==
  /\ cmd \in {"requestsList", "requestsExport"}
  /\ mode \in Modes /\ format = "json" /\ includeBody = FALSE
  /\ optBatchSize = NoOpt /\ optLimit = NoOpt /\ grouping = "model"
  /\ optFilter \in FilterTexts /\ optFilterFile \in FilterFiles
  /\ rawFilter = (IF RawFilterText = JsonText THEN RawLeaf ELSE Null)
  /\ conds = ModelConds
  /\ srcTotal = 1 /\ srvCount = 1

\* --filter alone, or neither option
InitFilterOption ==
  /\ optFilterFile = Undefined
  /\ optFilter = (IF rawFilter = Null THEN Undefined ELSE JsonText)

\* the texts --since is drawn from: every text of at most MaxText characters
\* of the alphabet, and the ISO texts
Alphabet == {"0", "1", "7", "x"} \cup Units
Texts ==
  UNION {[1..k -> Alphabet] : k \in 0..MaxText}
    \cup IsoTexts \cup {<<"x", "y", "z">>}

\* 2026-11-03T00:00:00.000Z and a later instant off the hour
Nows == {Instant(498240, 0), Instant(498250, 1234)}

\* 2001-07-01T00:00:00.000Z, or an invalid Date
EngineDates == {Instant(276096, 0), InvalidDate}

\* no --since
InitNoSince ==
  /\ optSince = NoText
  /\ now = Instant(498240, 0) /\ engineDate = InvalidDate

\* every command with every --since, over an empty source
InitSinceOptions ==
  /\ mode = "raw" /\ format = "json" /\ includeBody = FALSE
  /\ optBatchSize = NoOpt /\ optLimit = NoOpt /\ grouping = "model"
  /\ rawFilter = Null
  /\ conds = (IF IsSessions THEN NoConds ELSE DateConds)
  /\ srcTotal = 0 /\ srvCount = 0
  /\ optSince \in Texts \ {NoText}
  /\ now \in Nows /\ engineDate \in EngineDates

Init ==
  /\ cmd \in Commands
  /\ InitJob
  /\ \/ InitRequestsExport /\ InitFilterOption /\ InitNoSince
     \/ InitSessionsExport /\ InitFilterOption /\ InitNoSince
     \/ InitSummary /\ InitFilterOption /\ InitNoSince
     \/ InitList /\ InitFilterOption /\ InitNoSince
     \/ InitAggregate /\ InitFilterOption /\ InitNoSince
     \/ InitRawFilterOptions /\ InitNoSince
     \/ InitSinceOptions /\ InitFilterOption

Next ==
  \/ \E c \in CallNames : RawFetchDone(c)
  \/ \E c \in CallNames : RawBackoffDone(c)
  \/ \E c \in CallNames : GatewayFetchDone(c)
  \/ \E c \in CallNames : SignedBodyFetchDone(c)
  \/ ExportStart
  \/ ExportCounted
  \/ BatchReturned
  \/ EnrichReturned
  \/ DelayDone
  \/ SummaryStart
  \/ SummaryJoined
  \/ ListStart
  \/ ListReturned
  \/ ListCounted
  \/ AggregateStart
  \/ AggregateReturned

Spec == Init /\ [][Next]_vars

\* ------------------------------------------------------------------------
\* The exports on their own, every pending fetch and timer coming to an end
\* ------------------------------------------------------------------------
\* the exports over the small sources
ExportInit ==
  /\ cmd \in {"requestsExport", "sessionsExport"}
  /\ InitJob
  /\ InitRequestsExport \/ InitSessionsExport
  /\ srcTotal \in SmallTotals
  /\ InitFilterOption /\ InitNoSince

ExportNext ==
  \/ \E c \in CallNames : RawFetchDone(c)
  \/ \E c \in CallNames : RawBackoffDone(c)
  \/ \E c \in CallNames : GatewayFetchDone(c)
  \/ \E c \in CallNames : SignedBodyFetchDone(c)
  \/ ExportStart
  \/ ExportCounted
  \/ BatchReturned
  \/ EnrichReturned
  \/ DelayDone

\* a fetch settles or times out, a setTimeout fires, and the event loop runs
\* the continuation that waits for it
ExportFairSpec == ExportInit /\ [][ExportNext]_vars /\ WF_vars(ExportNext)

\* ------------------------------------------------------------------------
\* The filter functions on their own: buildFilter applied to a conditions
\* object, combineFilters applied to a raw filter and a second filter
\* ------------------------------------------------------------------------
CondSets == {c \in Conditions : Cardinality(PresentKeys(c)) <= MaxConds}

FilterInit ==
  /\ cmd = "requestsList" /\ mode = "raw" /\ format = "json"
  /\ optLimit = NoOpt /\ optBatchSize = NoOpt /\ includeBody = FALSE
  /\ grouping = "model" /\ srcTotal = 0 /\ srvCount = 0
  /\ calls = NoCalls
  /\ totalCount = 0 /\ recordsToExport = 0 /\ offset = 0 /\ exported = 0
  /\ isFirst = TRUE /\ page = <<>> /\ idx = 0
  /\ stream = "unopened" /\ out = <<>> /\ queries = <<>>
  /\ exitCode = -1 /\ report = "none" /\ summary = NoSummary
  /\ filter = Null
  /\ optFilter = Undefined /\ optFilterFile = Undefined
  /\ InitNoSince /\ startDate = NoDate /\ rangeStart = NoDate
  /\ InitNoCredentials
  /\ rawFilter \in RawFilters
  /\ \/ /\ pc = "start"
        /\ conds \in CondSets
        /\ convenienceFilter = Null
     \/ /\ pc = "built"
        /\ conds = NoConds
        /\ convenienceFilter \in FilterNodes

BuildFilterStep ==
  /\ pc = "start"
  /\ convenienceFilter' = buildFilter(conds)
  /\ pc' = "built"
  /\ UNCHANGED <<options, startDate, filter, summary, job, calls, exitCode,
                 report>>

CombineFiltersStep ==
  /\ pc = "built"
  /\ filter' = combineFilters(rawFilter, convenienceFilter)
  /\ pc' = "done"
  /\ UNCHANGED <<options, startDate, convenienceFilter, summary, job, calls,
                 exitCode, report>>

FilterNext == BuildFilterStep \/ CombineFiltersStep

FilterSpec == FilterInit /\ [][FilterNext]_vars

\* ------------------------------------------------------------------------
\* The date functions on their own: parseTimeRange, then parseDate, applied
\* to a text at an instant of the clock
\* ------------------------------------------------------------------------
DateInit ==
  /\ cmd = "requestsList" /\ mode = "raw" /\ format = "json"
  /\ optLimit = NoOpt /\ optBatchSize = NoOpt /\ includeBody = FALSE
  /\ grouping = "model" /\ srcTotal = 0 /\ srvCount = 0
  /\ InitJob
  /\ optFilter = Undefined /\ optFilterFile = Undefined
  /\ rawFilter = Null /\ conds = NoConds
  /\ optSince \in Texts
  /\ now \in Nows /\ engineDate \in EngineDates

ParseTimeRangeStep ==
  /\ pc = "start"
  /\ rangeStart' = parseTimeRange(optSince)
  /\ pc' = "ranged"
  /\ UNCHANGED <<cmd, mode, format, optLimit, optBatchSize, includeBody,
                 grouping, optFilter, optFilterFile, rawFilter, conds, optSince,
                 now, engineDate, credentials, srcTotal, srvCount, startDate,
                 convenienceFilter, filter, summary, job, calls, exitCode,
                 report>>

ParseDateStep ==
  /\ pc = "ranged"
  /\ startDate' = parseDate(optSince)
  /\ pc' = "done"
  /\ UNCHANGED <<options, convenienceFilter, filter, summary, job, calls,
                 exitCode, report>>

DateNext == ParseTimeRangeStep \/ ParseDateStep

DateSpec == DateInit /\ [][DateNext]_vars

\* ------------------------------------------------------------------------
\* The credentials: getAuthContext as createHeliconeClient calls it, auth
\* login, auth logout
\* ------------------------------------------------------------------------
AuthCommands == {"authContext", "authLogin", "authLogout"}

FlagKeys == {Undefined, "", "sk-flag"}
EnvKeys == {Undefined, "", "sk-env"}
StoredKeys == {Undefined, "", "sk-stored"}
TypedKeys == {"", "sk-typed"}
RegionTexts == {Undefined, "us", "eu", "asia"}

Configs ==
  {[apiKey |-> k, region |-> r, gatewayUrl |-> g[1], gatewayToken |-> g[2],
    mode |-> g[3]] :
     k \in StoredKeys, r \in RegionTexts,
     g \in {<<Undefined, Undefined, Undefined>>,
            <<"https://gateway", "token", "gateway">>}}

AuthInit ==
  /\ cmd \in AuthCommands
  /\ mode = "raw" /\ format = "json"
  /\ optLimit = NoOpt /\ optBatchSize = NoOpt /\ includeBody = FALSE
  /\ grouping = "model" /\ srcTotal \in {0, 1} /\ srvCount = srcTotal
  /\ pc = "start" /\ calls = NoCalls
  /\ convenienceFilter = Null /\ filter = Null
  /\ totalCount = 0 /\ recordsToExport = 0 /\ offset = 0 /\ exported = 0
  /\ isFirst = TRUE /\ page = <<>> /\ idx = 0
  /\ stream = "unopened" /\ out = <<>> /\ queries = <<>>
  /\ exitCode = -1 /\ report = "none" /\ summary = NoSummary
  /\ optFilter = Undefined /\ optFilterFile = Undefined
  /\ rawFilter = Null /\ conds = NoConds
  /\ InitNoSince /\ startDate = NoDate /\ rangeStart = NoDate
  /\ optApiKey \in FlagKeys /\ envApiKey \in EnvKeys
  /\ optRegion \in RegionTexts /\ envRegion \in RegionTexts
  /\ promptKey \in (IF cmd = "authLogin" THEN TypedKeys ELSE {""})
  /\ config \in Configs
  /\ authContext = NoAuthContext

authFrame == <<cmd, mode, format, optLimit, optBatchSize, includeBody, grouping,
               optFilter, optFilterFile, rawFilter, conds, optSince, now,
               engineDate, rangeStart, srcTotal, srvCount, startDate,
               convenienceFilter, filter, summary, job, optApiKey, envApiKey,
               optRegion, envRegion, promptKey>>

\* const auth = getAuthContext(options.apiKey, options.region);
AuthContextStep ==
  /\ cmd = "authContext" /\ pc = "start"
  /\ authContext' = getAuthContext(optApiKey, optRegion)
  /\ IF authContext'.kind = "error"
       THEN Exit(1, "No API key found")
       ELSE Exit(0, "authenticated")
  /\ UNCHANGED <<authFrame, config>>

\* login: options.apiKey, else the environment, else the prompt
LoginApiKey ==
  IF Truthy(optApiKey) THEN optApiKey
  ELSE IF Truthy(envApiKey) THEN envApiKey
  ELSE promptKey

\* const region = options.region === "eu" ? "eu" : "us";
LoginRegion == IF optRegion = "eu" THEN "eu" ELSE "us"

\* auth login up to `await client.verifyAuth()`
LoginStart ==
  /\ cmd = "authLogin" /\ pc = "start"
  /\ IF ~Truthy(LoginApiKey)
       THEN Exit(1, "No API key provided")
       ELSE /\ calls' = [calls EXCEPT !["query"] = queryRequests(AllMarker, 0, 1)]
            /\ pc' = "awaitVerify"
            /\ UNCHANGED <<exitCode, report>>
  /\ UNCHANGED <<authFrame, config, authContext>>

\* verifyAuth has returned: an error result ends the command, a data result
\* lets it store the credentials
LoginVerified ==
  /\ cmd = "authLogin" /\ pc = "awaitVerify" /\ Settled("query")
  /\ IF calls["query"].res.kind = "error"
       THEN Exit(1, "Authentication failed") /\ UNCHANGED config
       ELSE /\ config' = storeApiKey(LoginApiKey, LoginRegion)
            /\ Exit(0, "Logged in successfully")
  /\ UNCHANGED <<authFrame, authContext>>

Logout ==
  /\ cmd = "authLogout" /\ pc = "start"
  /\ IF ~hasStoredCredentials
       THEN Exit(0, "No stored credentials found") /\ UNCHANGED config
       ELSE /\ config' = clearCredentials
            /\ Exit(0, "Logged out successfully")
  /\ UNCHANGED <<authFrame, authContext>>

AuthNext ==
  \/ AuthContextStep
  \/ LoginStart
  \/ \E c \in CallNames : RawFetchDone(c)
  \/ \E c \in CallNames : RawBackoffDone(c)
  \/ LoginVerified
  \/ Logout

AuthSpec == AuthInit /\ [][AuthNext]_vars

TypeOK ==
  /\ cmd \in Commands \cup AuthCommands /\ mode \in Modes /\ format \in Formats \cup ListFormats
  /\ pc \in {"start", "awaitCount", "awaitBatch", "awaitEnrich", "delay",
              "awaitAll", "awaitList", "awaitListCount", "awaitSample",
              "built", "ranged", "awaitVerify", "done"}
  /\ stream \in {"unopened", "open", "closed"}
  /\ exitCode \in {-1, 0, 1}
  /\ report \in {"none", "nothing", "error", "exported", "summary", "listed",
                  "metrics", "Error reading filter file",
                  "Error parsing filter JSON", InvalidDateFormat,
                  "No API key found", "authenticated", "No API key provided",
                  "Authentication failed", "Logged in successfully",
                  "No stored credentials found", "Logged out successfully"}

\* ------------------------------------------------------------------------
\* Properties
\* ------------------------------------------------------------------------
\* ids of the records written to the stream, in the order written
WrittenIds ==
  LET recs == SelectSeq(out, LAMBDA t : t.id > 0)
  IN  [i \in 1..Len(recs) |-> recs[i].id]

FirstIds(n) == [i \in 1..n |-> i]

\* an explicit cap, or everything
CapOr(total) == IF optLimit = NoOpt THEN total ELSE optLimit

\* the command got past the count step and computed its target
Targeted == IsExport /\ stream # "unopened"

BatchAnswered == IsExport /\ pc = "awaitBatch" /\ calls["query"].st = "returned"
CountAnswered == IsExport /\ pc = "awaitCount" /\ calls["count"].st = "returned"

\* C1: a requests export against a source that counts and pages its `total`
\* records faithfully ends with exactly the first min(total, cap ?? total)
\* records in the sink, each once, in source order.
FaithfulRun ==
  /\ cmd = "requestsExport" /\ pc = "done"
  /\ srvCount = srcTotal
  /\ \/ report = "exported"
     \/ report = "nothing" /\ calls["count"].res.kind = "data"

C1_ExportsEachRecordOnce ==
  FaithfulRun => WrittenIds = FirstIds(Min(srcTotal, CapOr(srcTotal)))

\* C1, the same statement with the cap absent or at least 1: it fails as well,
\* on a batch size above the hard query limit.
C1_ExportsEachRecordOnceCapped ==
  (FaithfulRun /\ optLimit # 0)
  => WrittenIds = FirstIds(Min(srcTotal, CapOr(srcTotal)))

\* C2: the number of records to export is min(totalCount, cap) whenever a cap
\* is given (0 included) and totalCount when none is given.
C2_TargetIsMinOfCountAndCap ==
  Targeted => recordsToExport = Min(totalCount, CapOr(totalCount))

C4_CountErrorIsFatal ==
  [][(CountAnswered /\ calls["count"].res.kind = "error")
       => (pc' = "done" /\ exitCode' = 1 /\ report' = "error")]_vars

C6_StreamClosedAtEnd ==
  (IsExport /\ pc = "done" /\ stream # "unopened") => stream = "closed"

\* C7: no query-contract call raises an exception to its caller.
C7_ContractNeverThrows ==
  \A c \in CallNames : calls[c].st # "thrown"

\* C8: a JSON export that runs to its end has written "[", the exported
\* objects with exactly one separator between neighbours, and "]".
IsObject(t) == t.t = "object" /\ t.id > 0

JsonArrayOf(toks, n) ==
  /\ Len(toks) = (IF n = 0 THEN 2 ELSE 2 * n + 1)
  /\ toks[1] = LBracket
  /\ toks[Len(toks)] = RBracket
  /\ \A k \in 2..(Len(toks) - 1) :
        IF k % 2 = 0 THEN IsObject(toks[k]) ELSE toks[k] = Comma

C8_JsonArrayWellFormed ==
  (IsExport /\ format = "json" /\ pc = "done" /\ report = "exported")
  => JsonArrayOf(out, exported)

C8_Witness ==
  /\ IsExport /\ format = "json" /\ pc = "done" /\ report = "exported"
  /\ Len(queries) >= 3 /\ exported = 3

\* C9: an empty page while exported < target ends the loop without another
\* query and without an error: footer written, stream closed, exit code 0,
\* the count reported is the count written.
C9_EmptyPageEndsExport ==
  [][(/\ BatchAnswered /\ calls["query"].res.kind = "data"
      /\ Len(calls["query"].res.recs) = 0
      /\ exported < recordsToExport)
       => (/\ pc' = "done" /\ exitCode' = 0 /\ report' = "exported"
           /\ stream' = "closed"
           /\ out' = out \o FooterOf(format)
           /\ queries' = queries /\ InFlight' = {}
           /\ exported' = exported
           /\ Len(WrittenIds') = exported)]_vars

C9_Witness ==
  /\ IsExport /\ pc = "done" /\ report = "exported"
  /\ exported > 0 /\ exported < recordsToExport
  /\ stream = "closed"

\* C10: a count of zero ends the export successfully with "nothing matched",
\* the stream never opened and no batch query issued.
C10_ZeroCountEndsQuietly ==
  [][(CountAnswered /\ calls["count"].res.kind = "data"
      /\ calls["count"].res.n = 0)
       => (/\ pc' = "done" /\ exitCode' = 0 /\ report' = "nothing"
           /\ stream' = "unopened" /\ out' = <<>>
           /\ queries' = <<>> /\ InFlight' = {})]_vars

C10_Witness ==
  /\ IsExport /\ pc = "done" /\ report = "nothing"
  /\ calls["count"].res.kind = "data" /\ srcTotal > 0
  /\ stream = "unopened"

\* C11: the offset sent with the (k+1)-th batch query of an export is k times
\* the batch size, whatever the earlier pages returned.
C11_OffsetsAdvanceByBatchSize ==
  IsExport => \A k \in 1..Len(queries) : queries[k].offset = (k - 1) * batchSize

\* a second query issued after a page that came back short
C11_Witness ==
  /\ IsExport /\ Len(queries) = 2
  /\ queries[1].limit = 2 /\ exported = 1
  /\ queries[2].offset = 2

\* C12: a call through HeliconeClient.request makes at most maxRetries + 1
\* fetch attempts; the fetch of the last attempt ends the call with a result
\* (an error result when the attempts ran out on failures); an export that
\* gets that error result for a batch query exits 1 without issuing the
\* query again.
ViaRequest(c) == calls[c].api \notin {"none", "fetchSignedBody"}

C12_RetriesBoundedThenFatal ==
  /\ [](mode = "raw" => \A c \in CallNames : calls[c].attempt <= maxRetries)
  /\ [](mode = "raw" =>
          \A c \in CallNames :
            calls[c].res.err = "exhausted" =>
              calls[c].st = "returned" /\ calls[c].attempt = maxRetries)
  /\ [][\A c \in CallNames :
          (/\ mode = "raw" /\ ViaRequest(c)
           /\ calls[c].st = "inflight" /\ calls[c].attempt = maxRetries
           /\ calls'[c] # calls[c])
          => calls'[c].st = "returned"]_vars
  /\ [][(/\ BatchAnswered /\ mode = "raw"
          /\ calls["query"].res.kind = "error")
         => (pc' = "done" /\ exitCode' = 1 /\ queries' = queries)]_vars

C12_Witness ==
  /\ IsExport /\ mode = "raw" /\ pc = "done" /\ exitCode = 1
  /\ calls["query"].attempt = maxRetries
  /\ calls["query"].res.err = "exhausted"
  /\ Len(queries) >= 2

\* C13: the no-filter values are a two-sided identity of combineFilters: for
\* every filter tree F ("all", a leaf or a branch), combineFilters(null, F),
\* combineFilters("all", F), combineFilters({}, F), combineFilters(F, "all")
\* and combineFilters(F, {}) all return F.
IsFilterTree(f) == f.t \in {"all", "leaf", "branch"}

Combined == pc = "done" /\ filter = combineFilters(rawFilter, convenienceFilter)

C13_NoFilterIsTwoSidedIdentity ==
  Combined =>
    /\ (rawFilter \in {Null, AllMarker, EmptyObject}
          /\ IsFilterTree(convenienceFilter))
       => filter = convenienceFilter
    /\ (convenienceFilter \in {AllMarker, EmptyObject}
          /\ IsFilterTree(rawFilter))
       => filter = rawFilter

\* C14: when the raw filter and the flag-derived filter are both non-empty,
\* every count and query call of requests list and requests export carries
\* exactly {left: raw, operator: "and", right: derived}.
SentFilters ==
  {calls[c].filter : c \in {c \in CallNames :
                              calls[c].api \in {"queryRequests", "countRequests"}}}

C14_RawAndDerivedBothSent ==
  (/\ cmd \in {"requestsList", "requestsExport"}
   /\ rawFilter = RawLeaf /\ conds = ModelConds)
  => SentFilters \subseteq
       {[t |-> "branch", left |-> RawLeaf, operator |-> "and",
         right |-> Leaf("model", "", "equals", "gpt-4")]}

C14_Witness ==
  /\ cmd = "requestsExport" /\ pc = "awaitBatch"
  /\ rawFilter = RawLeaf /\ conds = ModelConds
  /\ calls["query"].st = "inflight"
  /\ calls["query"].filter.t = "branch"
  /\ calls["query"].filter.left = rawFilter

\* C15: a conditions object that yields N > 1 nodes gives a left-associated
\* chain of "and" branches whose nodes are in the order model, model-contains,
\* status, user-id, provider, start-date, end-date, min-cost, max-cost,
\* min-latency, max-latency, the property keys in insertion order, cached,
\* search, request-contains, response-contains.
KeyRank ==
  [model |-> 1, modelContains |-> 2, status |-> 3, userId |-> 4, provider |-> 5,
   startDate |-> 6, endDate |-> 7, minCost |-> 8, maxCost |-> 9,
   minLatency |-> 10, maxLatency |-> 11, properties |-> 12, cached |-> 13,
   search |-> 14, requestBodyContains |-> 15, responseBodyContains |-> 16]

\* the condition a node stands for, read off the node
NodeKey(node) ==
  IF node.t = "branch" THEN (IF node.operator = "or" THEN "search" ELSE "none")
  ELSE CASE node.field = "model" /\ node.op = "equals" -> "model"
         [] node.field = "model" /\ node.op = "ilike" -> "modelContains"
         [] node.field = "status" -> "status"
         [] node.field = "user_id" -> "userId"
         [] node.field = "provider" -> "provider"
         [] node.field = "request_created_at" /\ node.op = "gte" -> "startDate"
         [] node.field = "request_created_at" /\ node.op = "lte" -> "endDate"
         [] node.field = "cost" /\ node.op = "gte" -> "minCost"
         [] node.field = "cost" /\ node.op = "lte" -> "maxCost"
         [] node.field = "latency" /\ node.op = "gte" -> "minLatency"
         [] node.field = "latency" /\ node.op = "lte" -> "maxLatency"
         [] node.field = "properties" -> "properties"
         [] node.field = "cache_enabled" -> "cached"
         [] node.field = "request_body" -> "requestBodyContains"
         [] node.field = "response_body" -> "responseBodyContains"
         [] OTHER -> "none"

\* keys whose value makes buildFilter add a node
FalsyWhenEmpty == {"model", "modelContains", "userId", "provider", "search",
                   "requestBodyContains", "responseBodyContains"}

YieldingKeys(c) ==
  {k \in ScalarKeys : c[k] # Undefined /\ (k \in FalsyWhenEmpty => c[k] # "")}

NumNodes(c) == Cardinality(YieldingKeys(c)) + Len(c.properties)

\* the n nodes of a left-associated "and" chain, <<>> if f is not one
RECURSIVE Spine(_, _)
Spine(f, n) ==
  IF n = 1 THEN <<f>>
  ELSE IF f.t = "branch" /\ f.operator = "and"
    THEN LET rest == Spine(f.left, n - 1)
         IN  IF rest = <<>> THEN <<>> ELSE Append(rest, f.right)
    ELSE <<>>

PropertyKeysOf(nodes) ==
  LET ps == SelectSeq(nodes, LAMBDA nd : NodeKey(nd) = "properties")
  IN  [i \in 1..Len(ps) |-> ps[i].key]

InFixedOrder(nodes, c) ==
  /\ \A i \in 1..Len(nodes) : NodeKey(nodes[i]) # "none"
  /\ \A i, j \in 1..Len(nodes) :
        i < j => \/ KeyRank[NodeKey(nodes[i])] < KeyRank[NodeKey(nodes[j])]
                 \/ /\ NodeKey(nodes[i]) = "properties"
                    /\ NodeKey(nodes[j]) = "properties"
  /\ {NodeKey(nodes[i]) : i \in 1..Len(nodes)} \ {"properties"} = YieldingKeys(c)
  /\ PropertyKeysOf(nodes) = [i \in 1..Len(c.properties) |-> c.properties[i][1]]

\* buildFilter has been applied to conds
Built == pc = "built"

C15_LeftAssociatedInFixedOrder ==
  (Built /\ NumNodes(conds) > 1)
  => LET nodes == Spine(convenienceFilter, NumNodes(conds))
     IN  Len(nodes) = NumNodes(conds) /\ InFixedOrder(nodes, conds)

C15_Witness ==
  /\ Built /\ NumNodes(conds) = 4
  /\ Len(conds.properties) = 2 /\ conds.search = "timeout"
  /\ conds.model = "gpt-4"
  /\ convenienceFilter.right.operator = "or"
  /\ convenienceFilter.left.left.left.field = "model"

\* C16 (as claimed): a conditions object with exactly one condition given,
\* whichever it is (and given a value that makes it count: a non-empty
\* string, a single property), gives a bare leaf.
C16_SingleConditionIsLeaf ==
  (Built /\ Cardinality(PresentKeys(conds)) = 1 /\ NumNodes(conds) = 1)
  => convenienceFilter.t = "leaf"

\* C16 (amended): a conditions object that yields exactly one node gives that
\* node itself, not wrapped in an "and" branch: a leaf for every condition but
\* search, and for search the "or" branch of its two body leaves.
C16_SingleNodeIsReturnedBare ==
  (Built /\ NumNodes(conds) = 1)
  => IF YieldingKeys(conds) = {"search"}
       THEN /\ convenienceFilter.t = "branch"
            /\ convenienceFilter.operator = "or"
            /\ convenienceFilter.left.t = "leaf"
            /\ convenienceFilter.right.t = "leaf"
       ELSE /\ convenienceFilter.t = "leaf"
            /\ NodeKey(convenienceFilter) \in PresentKeys(conds)

C16_Witness ==
  /\ Built /\ PresentKeys(conds) = {"search"} /\ conds.search = "timeout"
  /\ convenienceFilter.t = "branch" /\ convenienceFilter.operator = "or"

\* C17: every field an export writes in a CSV row is wrapped in double
\* quotes, with its double quotes doubled, when it holds a comma, a double
\* quote or a line break, and is written as it is otherwise.
NeedsQuoting(str) == \E i \in 1..Len(str) : str[i] \in {",", Quote, Newline}

Quoted(str) ==
  LET body == DoubleQuotes(str)
  IN  [i \in 1..(Len(body) + 2) |->
         IF i = 1 \/ i = Len(body) + 2 THEN Quote ELSE body[i - 1]]

C17_CsvFieldsQuoted ==
  \A k \in 1..Len(out) :
     out[k].t = "row" =>
       LET str == ModelOf(out[k].id)
       IN  out[k].text = (IF NeedsQuoting(str) THEN Quoted(str) ELSE str)

\* C18: with --include-body, a failed enrichment fetch makes fetchSignedBody
\* return an empty object and never throw; the export goes on: the record
\* keeps no body, the next fetch is started or the whole page is written
\* (that record without a body), and the process does not exit.
EnrichFailed ==
  /\ cmd = "requestsExport" /\ pc = "awaitEnrich"
  /\ calls["enrich"].st = "returned"
  /\ calls["enrich"].res.err = "swallowed"

C18_EnrichFailureIsSilent ==
  /\ [](cmd = "requestsExport" => calls["enrich"].st # "thrown")
  /\ [](EnrichFailed => calls["enrich"].res.body = "none")
  /\ [][EnrichFailed =>
          /\ exitCode' = -1 /\ stream' = "open"
          /\ \/ /\ pc' = "awaitEnrich"
                /\ page' = page
                /\ calls'["enrich"].st = "inflight" /\ idx' > idx
             \/ /\ pc' = "delay"
                /\ Len(WrittenIds') = Len(WrittenIds) + Len(page)
                /\ exported' = exported + Len(page)
                /\ \E k \in 1..Len(out') :
                      out'[k].id = page[idx].id /\ out'[k].body = "none"]_vars

C18_Witness ==
  /\ EnrichFailed /\ includeBody
  /\ HasSignedBodyUrl(page[idx]) /\ Len(page) >= 2

\* C19: every aggregation command (metrics summary, metrics cost by model /
\* provider / day, metrics errors) issues its sample query with limit 1000 in
\* raw mode and 200 in gateway mode.
IsSampling ==
  cmd \in {"metricsSummary", "metricsCost", "metricsErrors"} /\ grouping # "user"

C19_AggregationsSampleAtModeLimit ==
  [][(IsSampling /\ pc = "start")
       => (/\ calls'["query"].api = "queryRequests"
           /\ calls'["query"].st = "inflight"
           /\ calls'["query"].limit = (IF mode = "gateway" THEN 200 ELSE 1000))]_vars

\* C20: in metrics summary, whatever the count and the sample size (an empty
\* sample included), scaleFactor is the number totalRequests / sampleSize when
\* totalRequests > sampleSize and exactly 1 otherwise; the estimated total
\* cost and tokens are the sample sums times scaleFactor (a sample of 10
\* costing 1.00 out of 100 requests gives 10.00); average latency and error
\* rate are those of the sample, not rescaled.
IsNumber(r) == r.den > 0

\* r = n / d
IsQuotient(r, n, d) == IsNumber(r) /\ d > 0 /\ r.num * d = n * r.den

SampleOf(n) == [i \in 1..n |-> Rec(i)]

C20_ScaleFactorAndEstimates ==
  (cmd = "metricsSummary" /\ pc = "done" /\ report = "summary")
  => LET n == summary.sampleSize
         total == summary.totalRequests
         sample == SampleOf(n)
         cost == SumSeq([i \in 1..n |-> sample[i].cost])
         tokens == SumSeq([i \in 1..n |-> sample[i].total_tokens])
         latency == SumSeq([i \in 1..n |-> sample[i].delay_ms])
         errors == Cardinality({i \in 1..n : sample[i].response_status >= 400})
     IN  /\ n = Min(srcTotal, getSampleLimit(mode))
         /\ IF total > n
              THEN /\ IsQuotient(summary.scaleFactor, total, n)
                   /\ IsQuotient(summary.estimatedTotalCost, cost * total, n)
                   /\ IsQuotient(summary.estimatedTotalTokens, tokens * total, n)
              ELSE /\ summary.scaleFactor = Whole(1)
                   /\ IsQuotient(summary.estimatedTotalCost, cost, 1)
                   /\ IsQuotient(summary.estimatedTotalTokens, tokens, 1)
         /\ (n = 10 /\ total = 100) => IsQuotient(summary.estimatedTotalCost, 1000, 1)
         /\ n > 0 => /\ IsQuotient(summary.avgLatency, latency, n)
                     /\ IsQuotient(summary.errorRate, errors * 100, n)

\* C20 on a sample that is not empty (holds)
C20_ScaleFactorOnNonEmptySample ==
  summary.sampleSize > 0 => C20_ScaleFactorAndEstimates

\* C21: the total that metrics summary uses and reports is never below the
\* sample size, whatever the count endpoint answers (0 or any positive
\* number) and whatever the size of the sample.
Summarized == cmd = "metricsSummary" /\ pc = "done" /\ report = "summary"

C21_TotalFlooredAtSampleSize ==
  Summarized => summary.totalRequests >= summary.sampleSize

\* C22: the error rate metrics summary reports is 100 * (sample records with
\* status >= 400) / sampleSize, and 0 for an empty sample (2 errors in 10
\* records give exactly 20); the records with status 200..299 are the
\* successes, and no record is counted both as a success and as an error.
C22_ErrorRateOfSample ==
  Summarized
  => LET n == summary.sampleSize
         sample == SampleOf(n)
         errors == Cardinality({i \in 1..n : sample[i].response_status >= 400})
         successes == Cardinality({i \in 1..n :
                                     /\ sample[i].response_status >= 200
                                     /\ sample[i].response_status <= 299})
     IN  /\ summary.errorCount = errors
         /\ summary.successCount = successes
         /\ summary.successCount + summary.errorCount <= n
         /\ IF n > 0 THEN IsQuotient(summary.errorRate, 100 * errors, n)
                     ELSE summary.errorRate = Whole(0)
         /\ (n = 10 /\ errors = 2) => IsQuotient(summary.errorRate, 20, 1)

\* a sample of ten: two errors, seven successes and one redirect
C22_Witness ==
  /\ Summarized
  /\ summary.sampleSize = 10
  /\ summary.errorCount = 2
  /\ summary.successCount = 7
  /\ summary.errorRate = Ratio(200, 10)

\* C23: in requests list and requests export, when --filter holds text that
\* is not JSON, or --filter-file names a file that cannot be read or that
\* holds text that is not JSON, the command reports a message about the
\* filter and exits non-zero; no request is ever sent and no output file is
\* opened, and the failure is final.
IsRequests == cmd \in {"requestsList", "requestsExport"}

FilterErrors == {"Error reading filter file", "Error parsing filter JSON"}

RefusedForFilter ==
  /\ calls = NoCalls /\ queries = <<>>
  /\ stream = "unopened" /\ out = <<>>
  /\ pc \in {"start", "done"}
  /\ pc = "done" => (exitCode = 1 /\ report \in FilterErrors)

C23_MalformedFilterIsFatal ==
  (/\ IsRequests
   /\ \/ optFilter = Garbage
      \/ optFilterFile \in {Unreadable, Garbage})
  => RefusedForFilter

\* C23 as amended: the raw filter source the command reads is --filter-file
\* when a path is given, otherwise --filter; when that source cannot be read
\* or holds text that is not JSON, the command reports a message about the
\* filter and exits non-zero, no request is ever sent and no output file is
\* opened, and the failure is final.
C23_MalformedFilterInUseIsFatal ==
  (/\ IsRequests
   /\ \/ Truthy(optFilterFile) /\ optFilterFile \in {Unreadable, Garbage}
      \/ ~Truthy(optFilterFile) /\ optFilter = Garbage)
  => (/\ RefusedForFilter
      /\ pc = "done" => report = (IF Truthy(optFilterFile)
                                    THEN "Error reading filter file"
                                    ELSE "Error parsing filter JSON"))

\* a requests export refused for the JSON in its filter file, --filter being
\* fine
C23_Witness ==
  /\ cmd = "requestsExport" /\ pc = "done"
  /\ optFilterFile = Garbage /\ optFilter = JsonText
  /\ exitCode = 1 /\ report = "Error reading filter file"
  /\ calls = NoCalls /\ stream = "unopened"

\* C24: parseDate tries the duration pattern first: a text of one or more
\* digits followed by one of h, d, w, m resolves to the clock's instant minus
\* magnitude x unit (h = 1 hour, d = 24 hours, w = 7 days, m = 30 days);
\* every other text is handed to the Date parser and resolves to the instant
\* it names; a text that is neither makes the command fail with the error
\* that names the accepted formats, before any request is sent.
RECURSIVE Pow10(_)
Pow10(n) == IF n = 0 THEN 1 ELSE 10 * Pow10(n - 1)

\* the number a text of k digits spells
Spelled(text, k) ==
  SumSeq([i \in 1..k |-> DigitValue(text[i]) * Pow10(k - i)])

IsDuration(text) ==
  \E k \in 1..(Len(text) - 1) :
    /\ Len(text) = k + 1
    /\ \A i \in 1..k : text[i] \in {"0", "1", "2", "3", "4", "5", "6", "7", "8", "9"}
    /\ text[k + 1] \in {"h", "d", "w", "m"}

HoursOfUnit == [h |-> 1, d |-> 24, w |-> 7 * 24, m |-> 30 * 24]

\* the clock's instant minus magnitude x unit
Resolved(text) ==
  LET k == Len(text) - 1
  IN  [now EXCEPT !.h = now.h - Spelled(text, k) * HoursOfUnit[text[k + 1]]]

NothingSent ==
  /\ calls = NoCalls /\ queries = <<>>
  /\ stream = "unopened" /\ out = <<>>

C24_DurationResolved ==
  /\ optSince = <<"7", "d">> /\ pc = "done" /\ exitCode = 0
  /\ startDate = DateAt([now EXCEPT !.h = now.h - 168])

\* C25: at a fixed instant of the clock, parseTimeRange of n followed by h is
\* that instant minus n hours, by d minus 24 n hours, by w minus 7 n days, by
\* m minus 30 n days; a text that does not match the pattern (such as xyz)
\* raises the error that names the accepted formats.
C25_ParseTimeRange ==
  pc # "start"
  => IF IsDuration(optSince)
       THEN rangeStart = DateAt(Resolved(optSince))
       ELSE rangeStart = ThrownError(InvalidTimeRange)

\* 10m is 300 days back
C25_Witness ==
  /\ pc = "ranged" /\ optSince = <<"1", "0", "m">>
  /\ rangeStart = DateAt([now EXCEPT !.h = now.h - 7200])

\* xyz is refused
C25_WitnessRefused ==
  /\ pc = "ranged" /\ optSince = <<"x", "y", "z">>
  /\ rangeStart.kind = "error" /\ rangeStart.msg = InvalidTimeRange

\* C26: the API key is the --api-key flag when one is given; otherwise the
\* HELICONE_API_KEY environment variable when it is set; otherwise the stored
\* config value: a lower source is used only when every higher one is absent.
\* The region follows the same order, flag, then environment, then config,
\* with us when none of them names a region.
Resolved26 == cmd = "authContext" /\ pc = "done"

Given(v) == v \notin {Undefined, ""}

C26_CredentialPrecedence ==
  Resolved26
  => /\ Given(optApiKey) => authContext.apiKey = optApiKey
     /\ (~Given(optApiKey) /\ Given(envApiKey)) => authContext.apiKey = envApiKey
     /\ (~Given(optApiKey) /\ ~Given(envApiKey) /\ Given(config.apiKey))
          => authContext.apiKey = config.apiKey
     /\ (~Given(optApiKey) /\ ~Given(envApiKey) /\ ~Given(config.apiKey))
          => (authContext.kind = "error" /\ exitCode = 1)
     /\ authContext.kind = "auth"
          => /\ authContext.apiKey = envApiKey => ~Given(optApiKey)
             /\ authContext.apiKey = config.apiKey
                  => (~Given(optApiKey) /\ ~Given(envApiKey))
             /\ authContext.region =
                  (CASE optRegion \in {"us", "eu"} -> optRegion
                     [] optRegion \notin {"us", "eu"} /\ envRegion \in {"us", "eu"}
                          -> envRegion
                     [] optRegion \notin {"us", "eu"} /\ envRegion \notin {"us", "eu"}
                          /\ config.region \in {"us", "eu"} -> config.region
                     [] OTHER -> "us")

\* flag, environment and config all hold a key and a region: the flag's win
C26_Witness ==
  /\ Resolved26
  /\ optApiKey = "sk-flag" /\ envApiKey = "sk-env" /\ config.apiKey = "sk-stored"
  /\ optRegion = "eu" /\ envRegion = "us" /\ config.region = "us"
  /\ authContext = [kind |-> "auth", apiKey |-> "sk-flag", region |-> "eu"]

\* C28: in every state of an export past its count step, pages never being
\* longer than the limit requested: exported <= recordsToExport; every limit
\* requested is at least 1 and at most batchSize, and the limit of the batch
\* in progress is at most recordsToExport - exported; the number of records
\* written to the output equals exported.
PagesWithinLimit ==
  (pc = "awaitBatch" /\ calls["query"].st = "returned")
  => Len(calls["query"].res.recs) <= queries[Len(queries)].limit

BatchInProgress == pc \in {"awaitBatch", "awaitEnrich"}

C28_ExportLoopInvariant ==
  (Targeted /\ PagesWithinLimit)
  => /\ exported <= recordsToExport
     /\ \A i \in 1..Len(queries) :
          queries[i].limit >= 1 /\ queries[i].limit <= batchSize
     /\ BatchInProgress
          => queries[Len(queries)].limit <= recordsToExport - exported
     /\ Len(WrittenIds) = exported

\* C28 as amended: as above, except that the records written equal exported
\* at every point of a requests export and between the batches of a sessions
\* export; while a sessions export fetches the requests of the sessions of a
\* page, the sessions already written run ahead of exported by at most the
\* length of that page.
SessionsMidPage == cmd = "sessionsExport" /\ pc = "awaitEnrich"

C28_ExportLoopInvariantBetweenBatches ==
  (Targeted /\ PagesWithinLimit)
  => /\ exported <= recordsToExport
     /\ \A i \in 1..Len(queries) :
          queries[i].limit >= 1 /\ queries[i].limit <= batchSize
     /\ BatchInProgress
          => queries[Len(queries)].limit <= recordsToExport - exported
     /\ ~SessionsMidPage => Len(WrittenIds) = exported
     /\ SessionsMidPage
          => /\ Len(WrittenIds) >= exported
             /\ Len(WrittenIds) <= exported + Len(page)

\* the second batch of a requests export asks for the one record that remains
C28_Witness ==
  /\ cmd = "requestsExport" /\ pc = "awaitBatch"
  /\ batchSize = 2 /\ recordsToExport = 3 /\ exported = 2
  /\ Len(WrittenIds) = 2
  /\ queries = <<[offset |-> 0, limit |-> 2], [offset |-> 2, limit |-> 1]>>

\* C27: every requests or sessions export comes to an end, whatever the
\* source answers to each batch (a page with records, an empty page, an
\* error); the batches that returned records number at most recordsToExport
\* and the batch queries issued at most one more.
\* every page with records moves the offset on by batchSize
NonEmptyPages == offset \div batchSize

C27_ExportTerminates ==
  /\ <>(pc = "done")
  /\ [](Targeted => /\ NonEmptyPages <= recordsToExport
                    /\ Len(queries) <= NonEmptyPages + 1
                    /\ Len(queries) <= recordsToExport + 1)

\* an export over three batches, the last of them empty
C27_Witness ==
  /\ IsExport /\ pc = "done" /\ report = "exported"
  /\ Len(queries) = 3 /\ NonEmptyPages = 2
  /\ exported < recordsToExport

\* C29: HeliconeClient.request goes on to another attempt only after a fetch
\* that threw (network failure, timeout, unreadable body) or answered 429,
\* and only while attempts remain; any other non-OK response, and a 429 on
\* the last attempt, ends the call at once with the API error result: no
\* wait, no further fetch.
OnTheWire(c) ==
  mode = "raw" /\ calls[c].st = "inflight" /\ calls[c].api # "fetchSignedBody"

ApiErrorAtOnce(before, after) ==
  /\ after.st = "returned"
  /\ after.res = [kind |-> "error", n |-> 0, recs |-> <<>>, err |-> "api",
                  body |-> "none"]
  /\ after.attempt = before.attempt

C29_RetryOnlyOnThrowOr429 ==
  /\ [](\A c \in CallNames : OnTheWire(c) =>
          \A o \in Outcomes :
            LET after == RawRequestStep(calls[c], o)
                retried == after.st = "sleeping"
                remain == calls[c].attempt < maxRetries
                threw == o \in {"networkFailure", "timeout", "badBody"}
            IN  /\ retried <=> ((threw \/ o = "http429") /\ remain)
                /\ o = "httpError" => ApiErrorAtOnce(calls[c], after)
                /\ (o = "http429" /\ ~remain) => ApiErrorAtOnce(calls[c], after))
  /\ [][\A c \in CallNames :
          /\ (OnTheWire(c) /\ calls'[c].res.err = "api")
               => ApiErrorAtOnce(calls[c], calls'[c])
          /\ (mode = "raw" /\ calls[c].st = "returned" /\ calls[c].res.err = "api")
               => (/\ calls'[c].st # "sleeping"
                   /\ calls'[c].st = "inflight" => calls'[c].attempt = 0)
          /\ (mode = "raw" /\ calls'[c].st = "sleeping" /\ calls[c].st # "sleeping")
               => (calls[c].st = "inflight" /\ calls[c].attempt < maxRetries)]_vars

\* a 429 on the fourth attempt of a batch query has ended the call
C29_Witness ==
  /\ mode = "raw" /\ pc = "awaitBatch"
  /\ calls["query"].st = "returned"
  /\ calls["query"].attempt = maxRetries
  /\ calls["query"].res.err = "api"

\* C30: auth login writes the API key and the region to the stored config
\* only once verifyAuth has succeeded; when verification fails, or no key is
\* provided, the stored config is left as it was and the process exits
\* non-zero; auth logout removes the stored API key and nothing else: region
\* and gateway settings stay as they were.
Verified ==
  calls["query"].st = "returned" /\ calls["query"].res.kind = "data"

SameButKey(before, after) ==
  /\ after.region = before.region
  /\ after.gatewayUrl = before.gatewayUrl
  /\ after.gatewayToken = before.gatewayToken
  /\ after.mode = before.mode

C30_LoginStoresAfterVerify ==
  [][/\ (cmd = "authLogin" /\ config' # config)
          => /\ Verified /\ exitCode' = 0
             /\ config'.apiKey = (IF optApiKey \notin {Undefined, ""} THEN optApiKey
                                   ELSE IF envApiKey \notin {Undefined, ""} THEN envApiKey
                                   ELSE promptKey)
             /\ config'.apiKey \notin {Undefined, ""}
             /\ config'.region = (IF optRegion = "eu" THEN "eu" ELSE "us")
             /\ config'.gatewayUrl = config.gatewayUrl
             /\ config'.gatewayToken = config.gatewayToken
             /\ config'.mode = config.mode
     /\ (cmd = "authLogin" /\ pc # "done" /\ pc' = "done")
          => IF Verified THEN exitCode' = 0 /\ config'.apiKey \notin {Undefined, ""}
             ELSE exitCode' = 1 /\ config' = config
     /\ (cmd = "authLogout" /\ pc # "done" /\ pc' = "done")
          => /\ SameButKey(config, config')
             /\ config'.apiKey \in {Undefined, ""}
             /\ config.apiKey \notin {Undefined, ""} => config'.apiKey = Undefined
             /\ exitCode' = 0]_vars

\* a login refused by the service, with a config that holds another key
C30_Witness ==
  /\ cmd = "authLogin" /\ pc = "done" /\ exitCode = 1
  /\ report = "Authentication failed"
  /\ calls["query"].res.kind = "error"
  /\ config.apiKey = "sk-stored" /\ config.region = "eu"
  /\ config.gatewayUrl = "https://gateway"

\* a logout that removed the key and kept region and gateway settings
C30_LoggedOut ==
  /\ cmd = "authLogout" /\ pc = "done" /\ report = "Logged out successfully"
  /\ config.apiKey = Undefined /\ config.region = "eu"
  /\ config.gatewayUrl = "https://gateway"

====
